---- MODULE Spec2Model ----
\* Model of the go-s3-uploader upload pipeline: main() (file discovery, seeding,
\* completion barrier, cache update) and the upload() workers with their retry
\* goroutines, as found in setup.go.
\*
\* Paths are the integers 1..MaxFiles; the order of the integers stands for the
\* lexicographic order of the path strings.  Hashes are small integers.
\* A FileHashes value is a function from a set of paths to hashes.
EXTENDS Integers, Sequences, FiniteSets, TLC

\* ---------------------------------------------------------------- bounds
MaxFiles == 2
MaxWorkers == 2
MaxAdds == 3
MaxPathLen == 3
MaxVal == 3
MaxCalls == 3
MaxWrites == 3
MaxResets == 2

\* ------------------------------------------------------ program constants
\* const maxTries = 10
maxTries == 10

\* Exit codes (iota)
Success == 0
SetupFailed == 1
S3AuthError == 2
CmdLineOptionError == 3
CachingFailure == 4

testEnv == "test"

Files == 1..MaxFiles
Hashes == {1, 2}
Workers == 1..MaxWorkers

\* Errors a store call can return (the messages of the test doubles).
RecoverableErrors == {"RequestTimeout", "NoSuchHost"}
FatalErrors == {"AccessDenied", "NoSuchBucket"}
Errors == RecoverableErrors \cup FatalErrors

VARIABLES
    WorkersCount, doUpload, doCache, dryRun, \* opts
    appEnv,
    tree,          \* the source directory: path -> content hash
    cacheFile,     \* the cache file on disk: path -> hash
    pc,            \* position of main()
    current, old, diff,
    seedIdx,       \* index of the next element of the sorted diff to send
    exitCode,
    written,       \* Dump returned nil and "Done updating cache." was said
    closed,        \* close(uploads) happened
    wgUploads, wgWorkers,
    rejected,      \* rejected.list
    wpc, wsrc,     \* each worker's position and the sourceFile it holds
    loc,           \* where each work item is
    attempts,      \* src.attempts
    calls,         \* number of fn(src) calls made per path
    delays,        \* the waits computed for each path, in order
    lastErr,       \* outcome of the latest fn(src) per path: ok, recoverable, fatal
    prevRun,       \* how the previous run of the program ended: first, clean, other
    slMutex,       \* syncedList.Mutex: the caller of add holding it, or 0
    slPc, slItem,  \* each caller of syncedList.add: its position and its item
    slTmp,         \* the slice value a caller read inside append
    slAdded,       \* how many add calls were made with each item
    hPath,         \* header resolution: the path being resolved
    hIdx,          \* header resolution: index of the rule examined next
    hResult,       \* header resolution: the resolved headers
    BucketName,    \* opts.BucketName: "" when not set
    SourceStat,    \* what os.Stat(opts.Source) returns: ok, notexist, other
    CacheStat,     \* what os.Stat(opts.CacheFile) returns: ok, notexist, other
    clErr,         \* classification: the error returned by the store call
    clAttempts,    \* classification: src.attempts when the error came back
    clResult,      \* classification: none, recoverable, fatal
    cfPc,          \* position of init()
    cfOpts,        \* opts: WorkersCount, Encrypt, cfgFile
    cfFlags,       \* the command line: flags given and their values
    cfDefaultFile, \* the config file .go-s3-uploader.json
    cfOtherFile,   \* another config file, the one -cfgfile names
    spIn,          \* one store call: gzip flag and what the file, the compressor and the store will do
    spPc,          \* position of the upload function and of the worker handling its result
    spPipe,        \* the io.Pipe between compressor and Upload: none, open, closed, or the error it was closed with
    spErr,         \* what the upload function returned
    spAttempts,    \* src.attempts of the item
    spNext,        \* what the worker did with the item: uploaded, rejected, retry
    mkMu,          \* MockS3Uploader.mu: the caller holding it, or 0
    mkPc, mkIn,    \* each caller of Upload: its position and its input (key, body)
    mkTmp,         \* the UploadCount a caller read for m.UploadCount++
    mkErr,         \* the error ErrorFunc gave to a caller
    mkRet,         \* what the latest Upload call of a caller returned
    mkCount,       \* MockS3Uploader.UploadCount
    mkUploads,     \* MockS3Uploader.Uploads
    mkStarted,     \* number of Upload calls made
    mkReadFails,   \* number of Upload calls that could not read their body
    injCount,      \* count of the ErrorNTimes closure
    injN,          \* n of ErrorNTimes(n, err)
    mkAtReset,     \* Upload calls that had taken the lock when Reset last ran
    mkResets,      \* number of Reset calls
    gzIn,          \* one gzip upload: pipe writes needed, compressor and store outcomes
    gzPc,          \* the compressor goroutine's position
    gzLeft,        \* writes to the pipe the compressor still has to make
    gzPending,     \* a pw.Write is waiting for a reader
    gzEnd,         \* how the write end of the pipe was closed, or "open"
    gzStPc,        \* the store call's position
    gzErr,         \* what u.Upload returned
    gzFn,          \* the upload function: running, or returned (f closed)
    mgO,           \* options.merge / restore: the receiver before the call
    mgOther,       \* the other options, or the content of the config file
    mgFile,        \* the config file restore opens: missing, invalid, ok
    mgPc,          \* position of the caller
    mgRes,         \* the receiver now
    mgErr,         \* what restore returned
    mgN            \* merge calls made

vars == <<WorkersCount, doUpload, doCache, dryRun, appEnv, tree, cacheFile, pc,
          current, old, diff, seedIdx, exitCode, written, closed, wgUploads,
          wgWorkers, rejected, wpc, wsrc, loc, attempts, calls, delays, lastErr,
          prevRun, slMutex, slPc, slItem, slTmp, slAdded, hPath, hIdx, hResult,
          BucketName, SourceStat, CacheStat,
          clErr, clAttempts, clResult,
          cfPc, cfOpts, cfFlags, cfDefaultFile, cfOtherFile,
          spIn, spPc, spPipe, spErr, spAttempts, spNext,
          mkMu, mkPc, mkIn, mkTmp, mkErr, mkRet, mkCount, mkUploads, mkStarted, mkReadFails, injCount, injN,
          mkAtReset, mkResets,
          gzIn, gzPc, gzLeft, gzPending, gzEnd, gzStPc, gzErr, gzFn,
          mgO, mgOther, mgFile, mgPc, mgRes, mgErr, mgN>>

optVars == <<WorkersCount, doUpload, doCache, dryRun, appEnv, tree>>
ghostVars == <<calls, delays, lastErr>>
listVars == <<slMutex, slPc, slItem, slTmp, slAdded>>
hdrVars == <<hPath, hIdx, hResult>>
flagVars == <<BucketName, SourceStat, CacheStat>>
classVars == <<clErr, clAttempts, clResult>>
cfgVars == <<cfPc, cfOpts, cfFlags, cfDefaultFile, cfOtherFile>>
putVars == <<spIn, spPc, spPipe, spErr, spAttempts, spNext>>
mockVars == <<mkMu, mkPc, mkIn, mkTmp, mkErr, mkRet, mkCount, mkUploads, mkStarted, mkReadFails, injCount, injN,
              mkAtReset, mkResets>>
pipeIoVars == <<gzIn, gzPc, gzLeft, gzPending, gzEnd, gzStPc, gzErr, gzFn>>
mergeVars == <<mgO, mgOther, mgFile, mgPc, mgRes, mgErr, mgN>>
\* state outside main() and its goroutines
auxVars == <<prevRun, listVars, hdrVars, flagVars, classVars, cfgVars, putVars, mockVars, pipeIoVars, mergeVars>>
notListVars == <<prevRun, hdrVars, flagVars, classVars, cfgVars, putVars, mockVars, pipeIoVars, mergeVars>>
notHdrVars == <<prevRun, listVars, flagVars, classVars, cfgVars, putVars, mockVars, pipeIoVars, mergeVars>>
notRunVars == <<listVars, hdrVars, flagVars, classVars, cfgVars, putVars, mockVars, pipeIoVars, mergeVars>>
notClassVars == <<prevRun, listVars, hdrVars, flagVars, cfgVars, putVars, mockVars, pipeIoVars, mergeVars>>
notCfgVars == <<prevRun, listVars, hdrVars, flagVars, classVars, putVars, mockVars, pipeIoVars, mergeVars>>
notPutVars == <<prevRun, listVars, hdrVars, flagVars, classVars, cfgVars, mockVars, pipeIoVars, mergeVars>>
notMockVars == <<prevRun, listVars, hdrVars, flagVars, classVars, cfgVars, putVars, pipeIoVars, mergeVars>>
notPipeIoVars == <<prevRun, listVars, hdrVars, flagVars, classVars, cfgVars, putVars, mockVars, mergeVars>>
notMergeVars == <<prevRun, listVars, hdrVars, flagVars, classVars, cfgVars, putVars, mockVars, pipeIoVars>>

\* ------------------------------------------------------------- helpers
Range(s) == {s[i] : i \in DOMAIN s}

FileHashesOver(S) == UNION {[T -> Hashes] : T \in SUBSET S}

Pow2(n) == 2^n

Min(S) == CHOOSE x \in S : \A y \in S : x <= y

\* sort.Strings(diff)
RECURSIVE SortStrings(_)
SortStrings(S) == IF S = {} THEN <<>> ELSE <<Min(S)>> \o SortStrings(S \ {Min(S)})

\* utils.FileHashes.Diff: the paths of cur that old lacks or holds with another hash
Diff(cur, prev) == {p \in DOMAIN cur : p \notin DOMAIN prev \/ prev[p] # cur[p]}

\* utils.FileHashes.Reject: a copy of fh without the listed paths
Reject(fh, list) == [p \in (DOMAIN fh) \ Range(list) |-> fh[p]]

\* sourceFile.recordAttempt
recordAttempt(a) == a + 1

\* sourceFile.retriable
retriable(a) == a < maxTries

\* isRecoverable(err)
isRecoverableTimeoutOnly(err) == err = "RequestTimeout"
isRecoverable(err) == err \in RecoverableErrors

\* how the pipeline classified an error
ErrorKind(err) == IF isRecoverable(err) THEN "recoverable" ELSE "fatal"

\* the wait computed by the retry goroutine
WaitLinear(a, env) ==
    IF env = testEnv THEN [n |-> 1, unit |-> "ns"]
    ELSE [n |-> 100 * (a + 1), unit |-> "ms"]
Wait(a, env) ==
    IF env = testEnv THEN [n |-> 1, unit |-> "ns"]
    ELSE [n |-> 100 * Pow2(a), unit |-> "ms"]

\* the condition of the rejection branch of upload()
ShouldRejectNoBound(a, err) == ~isRecoverable(err)
ShouldRejectAnd(a, err) == ~retriable(a) /\ ~isRecoverable(err)
ShouldReject(a, err) == ~retriable(a) \/ ~isRecoverable(err)

\* current.Reject(rejected.list), the value handed to Dump
FinalCacheNoReject(cur, rej) == cur
FinalCacheOnlyDiff(cur, rej) == [p \in (diff \ Range(rej)) |-> cur[p]]
FinalCache(cur, rej) == Reject(cur, rej)

\* sort.Strings(diff); for _, fname := range diff
WorkListAll == SortStrings(DOMAIN current)
WorkListUnsorted == [i \in 1..Cardinality(diff) |-> SortStrings(diff)[Cardinality(diff) + 1 - i]]
WorkList == SortStrings(diff)

\* wgUploads.Wait() returns
ChannelIdle == \A p \in Files : loc[p] \notin {"seed", "send"}
UploadsSettled == wgUploads = 0

Terminal(p) == loc[p] \in {"uploaded", "pretended", "failed"}
Retrying(p) == loc[p] \in {"timer", "send"}

\* no syncedList.add call in progress
ListAtRest ==
    /\ slMutex = 0
    /\ slPc = [w \in Workers |-> "none"]
    /\ slItem = [w \in Workers |-> 0]
    /\ slTmp = [w \in Workers |-> <<>>]
    /\ slAdded = [x \in Files |-> 0]

\* headers{}: no ContentEncoding, no CacheControl
NoHeaders == [ContentEncoding |-> "", CacheControl |-> ""]

\* a sourceFile whose headers are not resolved yet
Unresolved == [rule |-> -1, hdr |-> NoHeaders, gzip |-> FALSE]

\* no header resolution in progress
HeadersAtRest ==
    /\ hPath = <<>>
    /\ hIdx = 0
    /\ hResult = Unresolved

\* the flags main() validates are all good
FlagsAtRest ==
    /\ BucketName = "bucket"
    /\ SourceStat = "ok"
    /\ CacheStat = "ok"

\* no error is being classified
ClassifyAtRest ==
    /\ clErr = "none"
    /\ clAttempts = 0
    /\ clResult = "none"

\* init() is not running
ConfigAtRest ==
    /\ cfPc = "none"
    /\ cfOpts = <<>>
    /\ cfFlags = <<>>
    /\ cfDefaultFile = <<>>
    /\ cfOtherFile = <<>>

\* no store call is being followed step by step
PutAtRest ==
    /\ spIn = <<>>
    /\ spPc = "none"
    /\ spPipe = "none"
    /\ spErr = "none"
    /\ spAttempts = 0
    /\ spNext = "none"

\* no MockS3Uploader in use
MockAtRest ==
    /\ mkMu = 0
    /\ mkPc = [w \in Workers |-> "none"]
    /\ mkIn = [w \in Workers |-> <<>>]
    /\ mkTmp = [w \in Workers |-> 0]
    /\ mkErr = [w \in Workers |-> "none"]
    /\ mkRet = [w \in Workers |-> "none"]
    /\ mkCount = 0
    /\ mkUploads = <<>>
    /\ mkStarted = 0
    /\ mkReadFails = 0
    /\ injCount = 0
    /\ injN = 0
    /\ mkAtReset = 0
    /\ mkResets = 0

\* no gzip upload in progress
PipeAtRest ==
    /\ gzIn = <<>>
    /\ gzPc = "none"
    /\ gzLeft = 0
    /\ gzPending = FALSE
    /\ gzEnd = "open"
    /\ gzStPc = "none"
    /\ gzErr = "none"
    /\ gzFn = "none"

\* no merge or restore under study
MergeAtRest ==
    /\ mgO = <<>>
    /\ mgOther = <<>>
    /\ mgFile = "none"
    /\ mgPc = "none"
    /\ mgRes = <<>>
    /\ mgErr = "none"
    /\ mgN = 0

\* ---------------------------------------------------------------- Init
Init ==
    /\ WorkersCount \in 0..MaxWorkers
    /\ doUpload \in BOOLEAN
    /\ doCache \in BOOLEAN
    /\ dryRun \in BOOLEAN
    /\ appEnv = "production"      \* set by init() before main() runs; the
                                  \* test environment never runs main()
    /\ tree \in UNION {[T -> {1}] : T \in SUBSET Files}
    /\ cacheFile \in FileHashesOver(Files)
    /\ pc = "start"
    /\ current = <<>>
    /\ old = <<>>
    /\ diff = {}
    /\ seedIdx = 1
    /\ exitCode = Success
    /\ written = FALSE
    /\ closed = FALSE
    /\ wgUploads = 0
    /\ wgWorkers = 0
    /\ rejected = <<>>
    /\ wpc = [w \in Workers |-> "none"]
    /\ wsrc = [w \in Workers |-> 0]
    /\ loc = [p \in Files |-> "absent"]
    /\ attempts = [p \in Files |-> 0]
    /\ calls = [p \in Files |-> 0]
    /\ delays = [p \in Files |-> <<>>]
    /\ lastErr = [p \in Files |-> "none"]
    /\ prevRun = "first"
    /\ MergeAtRest
    /\ PipeAtRest
    /\ MockAtRest
    /\ PutAtRest
    /\ ConfigAtRest
    /\ ClassifyAtRest
    /\ FlagsAtRest
    /\ ListAtRest
    /\ HeadersAtRest

\* ---------------------------------------------------------------- main
pipeVars == <<closed, wgUploads, wgWorkers, rejected, wpc, wsrc, loc, attempts>>

\* filesLists(), then len(diff) == 0: "Nothing to upload", os.Exit(Success)
NothingToUploadFallsThrough ==
    /\ pc = "start"
    /\ Diff(tree, cacheFile) = {}
    /\ current' = tree
    /\ old' = cacheFile
    /\ diff' = {}
    /\ pc' = "cache"
    /\ UNCHANGED <<optVars, auxVars, cacheFile, seedIdx, exitCode, written, pipeVars, ghostVars>>
NothingToUpload ==
    /\ pc = "start"
    /\ Diff(tree, cacheFile) = {}
    /\ current' = tree
    /\ old' = cacheFile
    /\ diff' = {}
    /\ pc' = "done"
    /\ exitCode' = Success
    /\ UNCHANGED <<optVars, auxVars, cacheFile, seedIdx, written, pipeVars, ghostVars>>

\* an upload switch that is looked at only after the workers are started
SkipUploadAfterStart ==
    /\ pc = "start"
    /\ Diff(tree, cacheFile) # {}
    /\ ~doUpload
    /\ current' = tree
    /\ old' = cacheFile
    /\ diff' = Diff(tree, cacheFile)
    /\ wgWorkers' = WorkersCount
    /\ wpc' = [w \in Workers |-> IF w <= WorkersCount THEN "idle" ELSE "none"]
    /\ pc' = "cache"
    /\ UNCHANGED <<optVars, auxVars, cacheFile, seedIdx, exitCode, written, closed, wgUploads,
                   rejected, wsrc, loc, attempts, ghostVars>>

\* filesLists(), then !opts.doUpload: goto Cache
SkipUpload ==
    /\ pc = "start"
    /\ Diff(tree, cacheFile) # {}
    /\ ~doUpload
    /\ current' = tree
    /\ old' = cacheFile
    /\ diff' = Diff(tree, cacheFile)
    /\ pc' = "cache"
    /\ UNCHANGED <<optVars, auxVars, cacheFile, seedIdx, exitCode, written, pipeVars, ghostVars>>

\* filesLists(), wgUploads.Add, wgWorkers.Add, go upload(...) x WorkersCount
StartUploadExtraWorker ==
    /\ pc = "start"
    /\ Diff(tree, cacheFile) # {}
    /\ doUpload
    /\ current' = tree
    /\ old' = cacheFile
    /\ diff' = Diff(tree, cacheFile)
    /\ wgUploads' = Cardinality(diff')
    /\ wgWorkers' = WorkersCount
    /\ wpc' = [w \in Workers |-> IF w <= WorkersCount + 1 THEN "idle" ELSE "none"]
    /\ loc' = [p \in Files |-> IF p \in diff' THEN "seed" ELSE "absent"]
    /\ seedIdx' = 1
    /\ pc' = "seed"
    /\ UNCHANGED <<optVars, auxVars, cacheFile, exitCode, written, closed, rejected, wsrc,
                   attempts, ghostVars>>
StartUpload ==
    /\ pc = "start"
    /\ Diff(tree, cacheFile) # {}
    /\ doUpload
    /\ current' = tree
    /\ old' = cacheFile
    /\ diff' = Diff(tree, cacheFile)
    /\ wgUploads' = Cardinality(diff')
    /\ wgWorkers' = WorkersCount
    /\ wpc' = [w \in Workers |-> IF w <= WorkersCount THEN "idle" ELSE "none"]
    /\ loc' = [p \in Files |-> IF p \in diff' THEN "seed" ELSE "absent"]
    /\ seedIdx' = 1
    /\ pc' = "seed"
    /\ UNCHANGED <<optVars, auxVars, cacheFile, exitCode, written, closed, rejected, wsrc,
                   attempts, ghostVars>>

\* uploads <- newSourceFile(fname), received by worker w
Seed(w) ==
    /\ pc = "seed"
    /\ wpc[w] = "idle"
    /\ ~closed
    /\ LET q == WorkList
           p == q[seedIdx]
       IN /\ seedIdx <= Len(q)
          /\ loc' = [loc EXCEPT ![p] = "worker"]
          /\ wsrc' = [wsrc EXCEPT ![w] = p]
          /\ wpc' = [wpc EXCEPT ![w] = "busy"]
          /\ seedIdx' = seedIdx + 1
          /\ pc' = IF seedIdx = Len(q) THEN "waitUploads" ELSE "seed"
    /\ UNCHANGED <<optVars, auxVars, cacheFile, current, old, diff, exitCode, written,
                   closed, wgUploads, wgWorkers, rejected, attempts, ghostVars>>

\* wgUploads.Wait() returns; close(uploads)
CloseUploads ==
    /\ pc = "waitUploads"
    /\ UploadsSettled
    /\ closed' = TRUE
    /\ pc' = "waitWorkers"
    /\ UNCHANGED <<optVars, auxVars, cacheFile, current, old, diff, seedIdx, exitCode,
                   written, wgUploads, wgWorkers, rejected, wpc, wsrc, loc,
                   attempts, ghostVars>>

\* main goes on to the cache without waiting for the workers
WorkersJoinedEarly ==
    /\ pc = "waitWorkers"
    /\ pc' = "cache"
    /\ UNCHANGED <<optVars, auxVars, cacheFile, current, old, diff, seedIdx, exitCode,
                   written, pipeVars, ghostVars>>

\* wgWorkers.Wait() returns; "Done uploading files."
WorkersJoined ==
    /\ pc = "waitWorkers"
    /\ wgWorkers = 0
    /\ pc' = "cache"
    /\ UNCHANGED <<optVars, auxVars, cacheFile, current, old, diff, seedIdx, exitCode,
                   written, pipeVars, ghostVars>>

\* a cache step that writes although caching is switched off
SkipCacheDumps ==
    /\ pc = "cache"
    /\ ~doCache
    /\ current' = FinalCache(current, rejected)
    /\ cacheFile' = current'
    /\ written' = TRUE
    /\ pc' = "done"
    /\ UNCHANGED <<optVars, auxVars, old, diff, seedIdx, exitCode, pipeVars, ghostVars>>

\* Cache: !opts.doCache: goto Done
SkipCache ==
    /\ pc = "cache"
    /\ ~doCache
    /\ pc' = "done"
    /\ UNCHANGED <<optVars, auxVars, cacheFile, current, old, diff, seedIdx, exitCode,
                   written, pipeVars, ghostVars>>

\* Cache: opts.dryRun: "Pretending to update cache", goto Done
PretendCacheDumps ==
    /\ pc = "cache"
    /\ doCache
    /\ dryRun
    /\ current' = FinalCache(current, rejected)
    /\ cacheFile' = current'
    /\ written' = TRUE
    /\ pc' = "done"
    /\ UNCHANGED <<optVars, auxVars, old, diff, seedIdx, exitCode, pipeVars, ghostVars>>
PretendCache ==
    /\ pc = "cache"
    /\ doCache
    /\ dryRun
    /\ pc' = "done"
    /\ UNCHANGED <<optVars, auxVars, cacheFile, current, old, diff, seedIdx, exitCode,
                   written, pipeVars, ghostVars>>

\* current = current.Reject(rejected.list); current.Dump succeeds
DumpOkKeepsOld ==
    /\ pc = "cache"
    /\ doCache
    /\ ~dryRun
    /\ current' = FinalCache(current, rejected)
    /\ cacheFile' = old
    /\ written' = TRUE
    /\ pc' = "done"
    /\ UNCHANGED <<optVars, auxVars, old, diff, seedIdx, exitCode, pipeVars, ghostVars>>
DumpOk ==
    /\ pc = "cache"
    /\ doCache
    /\ ~dryRun
    /\ current' = FinalCache(current, rejected)
    /\ cacheFile' = current'
    /\ written' = TRUE
    /\ pc' = "done"
    /\ UNCHANGED <<optVars, auxVars, old, diff, seedIdx, exitCode, pipeVars, ghostVars>>

\* current.Dump fails: "Caching failed", os.Exit(CachingFailure)
DumpFailSwallowed ==
    /\ pc = "cache"
    /\ doCache
    /\ ~dryRun
    /\ current' = FinalCache(current, rejected)
    /\ written' = TRUE
    /\ pc' = "done"
    /\ UNCHANGED <<optVars, auxVars, cacheFile, old, diff, seedIdx, exitCode, pipeVars, ghostVars>>
DumpFail ==
    /\ pc = "cache"
    /\ doCache
    /\ ~dryRun
    /\ current' = FinalCache(current, rejected)
    /\ exitCode' = CachingFailure
    /\ pc' = "done"
    /\ UNCHANGED <<optVars, auxVars, cacheFile, old, diff, seedIdx, written, pipeVars, ghostVars>>

\* -------------------------------------------------------------- upload()
mainVars == <<pc, current, old, diff, seedIdx, exitCode, written, cacheFile>>

\* a pretended upload that does not report the item done
PretendNoDone(w) ==
    /\ wpc[w] = "busy"
    /\ dryRun
    /\ loc' = [loc EXCEPT ![wsrc[w]] = "pretended"]
    /\ wpc' = [wpc EXCEPT ![w] = "idle"]
    /\ wsrc' = [wsrc EXCEPT ![w] = 0]
    /\ UNCHANGED <<optVars, auxVars, mainVars, closed, wgUploads, wgWorkers, rejected, attempts,
                   ghostVars>>

\* opts.dryRun: "Pretending to upload", wgUploads.Done(), continue
Pretend(w) ==
    /\ wpc[w] = "busy"
    /\ dryRun
    /\ loc' = [loc EXCEPT ![wsrc[w]] = "pretended"]
    /\ wgUploads' = wgUploads - 1
    /\ wpc' = [wpc EXCEPT ![w] = "idle"]
    /\ wsrc' = [wsrc EXCEPT ![w] = 0]
    /\ UNCHANGED <<optVars, auxVars, mainVars, closed, wgWorkers, rejected, attempts, ghostVars>>

\* err == nil: wgUploads.Done(), "Uploaded", continue
OnSuccessFallsThrough(w, p) ==
    /\ loc' = [loc EXCEPT ![p] = "uploaded"]
    /\ wgUploads' = wgUploads - 1
    /\ attempts' = [attempts EXCEPT ![p] = recordAttempt(attempts[p])]
    /\ wpc' = [wpc EXCEPT ![w] = "idle"]
    /\ wsrc' = [wsrc EXCEPT ![w] = 0]
    /\ UNCHANGED <<rejected, delays>>
OnSuccess(w, p) ==
    /\ loc' = [loc EXCEPT ![p] = "uploaded"]
    /\ wgUploads' = wgUploads - 1
    /\ wpc' = [wpc EXCEPT ![w] = "idle"]
    /\ wsrc' = [wsrc EXCEPT ![w] = 0]
    /\ UNCHANGED <<rejected, attempts, delays>>

\* rejected.add(src.fname), "Failed to upload", wgUploads.Done(), continue
OnRejectNoAdd(w, p) ==
    /\ loc' = [loc EXCEPT ![p] = "failed"]
    /\ wgUploads' = wgUploads - 1
    /\ wpc' = [wpc EXCEPT ![w] = "idle"]
    /\ wsrc' = [wsrc EXCEPT ![w] = 0]
    /\ UNCHANGED <<rejected, delays>>
OnRejectNoDone(w, p) ==
    /\ rejected' = Append(rejected, p)
    /\ loc' = [loc EXCEPT ![p] = "failed"]
    /\ wpc' = [wpc EXCEPT ![w] = "idle"]
    /\ wsrc' = [wsrc EXCEPT ![w] = 0]
    /\ UNCHANGED <<wgUploads, delays>>
OnRejectReturn(w, p) ==
    /\ rejected' = Append(rejected, p)
    /\ loc' = [loc EXCEPT ![p] = "failed"]
    /\ wgUploads' = wgUploads - 1
    /\ wpc' = [wpc EXCEPT ![w] = "exited"]
    /\ wsrc' = [wsrc EXCEPT ![w] = 0]
    /\ UNCHANGED delays
OnRejectRetries(w, p) ==
    /\ rejected' = Append(rejected, p)
    /\ loc' = [loc EXCEPT ![p] = "timer"]
    /\ wgUploads' = wgUploads - 1
    /\ wpc' = [wpc EXCEPT ![w] = "idle"]
    /\ wsrc' = [wsrc EXCEPT ![w] = 0]
    /\ UNCHANGED delays
OnReject(w, p) ==
    /\ rejected' = Append(rejected, p)
    /\ loc' = [loc EXCEPT ![p] = "failed"]
    /\ wgUploads' = wgUploads - 1
    /\ wpc' = [wpc EXCEPT ![w] = "idle"]
    /\ wsrc' = [wsrc EXCEPT ![w] = 0]
    /\ UNCHANGED delays

\* a retry that also reports the item done
OnRetryDone(w, p) ==
    /\ loc' = [loc EXCEPT ![p] = "timer"]
    /\ delays' = [delays EXCEPT ![p] = Append(@, Wait(attempts'[p], appEnv))]
    /\ wpc' = [wpc EXCEPT ![w] = "idle"]
    /\ wsrc' = [wsrc EXCEPT ![w] = 0]
    /\ wgUploads' = wgUploads - 1
    /\ UNCHANGED rejected

\* go func() { wait := ...; <-time.After(wait); uploads <- src }(): the worker
\* goes back to the range loop, the goroutine computes its wait and sleeps
OnRetryInline(w, p) ==
    /\ loc' = [loc EXCEPT ![p] = "timer"]
    /\ delays' = [delays EXCEPT ![p] = Append(@, Wait(attempts'[p], appEnv))]
    /\ UNCHANGED <<wpc, wsrc, rejected, wgUploads>>
OnRetry(w, p) ==
    /\ loc' = [loc EXCEPT ![p] = "timer"]
    /\ delays' = [delays EXCEPT ![p] = Append(@, Wait(attempts'[p], appEnv))]
    /\ wpc' = [wpc EXCEPT ![w] = "idle"]
    /\ wsrc' = [wsrc EXCEPT ![w] = 0]
    /\ UNCHANGED <<rejected, wgUploads>>

\* err := fn(src) returns nil
UploadOk(w) ==
    /\ wpc[w] = "busy"
    /\ ~dryRun
    /\ calls' = [calls EXCEPT ![wsrc[w]] = @ + 1]
    /\ lastErr' = [lastErr EXCEPT ![wsrc[w]] = "ok"]
    /\ OnSuccess(w, wsrc[w])
    /\ UNCHANGED <<optVars, auxVars, mainVars, closed, wgWorkers>>

\* err := fn(src) returns err: src.recordAttempt(), then reject or retry
UploadErr(w, err) ==
    /\ wpc[w] = "busy"
    /\ ~dryRun
    /\ calls' = [calls EXCEPT ![wsrc[w]] = @ + 1]
    /\ lastErr' = [lastErr EXCEPT ![wsrc[w]] = ErrorKind(err)]
    /\ attempts' = [attempts EXCEPT ![wsrc[w]] = recordAttempt(attempts[wsrc[w]])]
    /\ IF ShouldReject(attempts'[wsrc[w]], err)
       THEN OnReject(w, wsrc[w])
       ELSE OnRetry(w, wsrc[w])
    /\ UNCHANGED <<optVars, auxVars, mainVars, closed, wgWorkers>>

\* <-time.After(wait) fires in the retry goroutine of p
TimerFires(p) ==
    /\ loc[p] = "timer"
    /\ loc' = [loc EXCEPT ![p] = "send"]
    /\ UNCHANGED <<optVars, auxVars, mainVars, closed, wgUploads, wgWorkers, rejected,
                   wpc, wsrc, attempts, ghostVars>>

\* a resend after which the retry goroutine sends the item again
ResendTwice(p, w) ==
    /\ loc[p] = "send"
    /\ wpc[w] = "idle"
    /\ ~closed
    /\ wsrc' = [wsrc EXCEPT ![w] = p]
    /\ wpc' = [wpc EXCEPT ![w] = "busy"]
    /\ UNCHANGED <<optVars, auxVars, mainVars, closed, wgUploads, wgWorkers, rejected,
                   loc, attempts, ghostVars>>

\* uploads <- src in the retry goroutine of p, received by worker w
Resend(p, w) ==
    /\ loc[p] = "send"
    /\ wpc[w] = "idle"
    /\ ~closed
    /\ loc' = [loc EXCEPT ![p] = "worker"]
    /\ wsrc' = [wsrc EXCEPT ![w] = p]
    /\ wpc' = [wpc EXCEPT ![w] = "busy"]
    /\ UNCHANGED <<optVars, auxVars, mainVars, closed, wgUploads, wgWorkers, rejected,
                   attempts, ghostVars>>

\* range uploads ends on the closed channel; defer wgWorkers.Done()
WorkerExit(w) ==
    /\ wpc[w] = "idle"
    /\ closed
    /\ wpc' = [wpc EXCEPT ![w] = "exited"]
    /\ wgWorkers' = wgWorkers - 1
    /\ UNCHANGED <<optVars, auxVars, mainVars, closed, wgUploads, rejected, wsrc, loc,
                   attempts, ghostVars>>

Main ==
    \/ NothingToUpload
    \/ SkipUpload
    \/ StartUpload
    \/ \E w \in Workers : Seed(w)
    \/ CloseUploads
    \/ WorkersJoined
    \/ SkipCache
    \/ PretendCache
    \/ DumpOk
    \/ DumpFail

Worker(w) ==
    \/ Pretend(w)
    \/ UploadOk(w)
    \/ \E err \in Errors : UploadErr(w, err)
    \/ WorkerExit(w)

RetryGoroutine(p) ==
    \/ TimerFires(p)
    \/ \E w \in Workers : Resend(p, w)

Next ==
    \/ Main
    \/ \E w \in Workers : Worker(w)
    \/ \E p \in Files : RetryGoroutine(p)

Spec == Init /\ [][Next]_vars

\* Every goroutine that can take a step eventually takes one.
FairSpec ==
    /\ Init
    /\ [][Next]_vars
    /\ WF_vars(Main)
    /\ \A w \in Workers : WF_vars(Worker(w))
    /\ \A p \in Files : WF_vars(RetryGoroutine(p))

\* ---------------------------------------------------------- filesLists
\* main() has not run: no lists, no goroutines, nothing recorded
RunAtRest ==
    /\ pc = "start"
    /\ current = <<>>
    /\ old = <<>>
    /\ diff = {}
    /\ seedIdx = 1
    /\ exitCode = Success
    /\ written = FALSE
    /\ closed = FALSE
    /\ wgUploads = 0
    /\ wgWorkers = 0
    /\ rejected = <<>>
    /\ wpc = [w \in Workers |-> "none"]
    /\ wsrc = [w \in Workers |-> 0]
    /\ loc = [p \in Files |-> "absent"]
    /\ attempts = [p \in Files |-> 0]
    /\ calls = [p \in Files |-> 0]
    /\ delays = [p \in Files |-> <<>>]
    /\ lastErr = [p \in Files |-> "none"]

\* the options as set by init(), with nothing to do
OptionsOff ==
    /\ WorkersCount = 0
    /\ doUpload = FALSE
    /\ doCache = FALSE
    /\ dryRun = FALSE
    /\ appEnv = "production"

\* any source tree against any cache file
InitDiff ==
    /\ OptionsOff
    /\ tree \in FileHashesOver(Files)
    /\ cacheFile \in FileHashesOver(Files)
    /\ RunAtRest
    /\ prevRun = "first"
    /\ MergeAtRest
    /\ PipeAtRest
    /\ MockAtRest
    /\ PutAtRest
    /\ ConfigAtRest
    /\ ClassifyAtRest
    /\ FlagsAtRest
    /\ ListAtRest
    /\ HeadersAtRest

\* filesLists(): current from the tree, old from the cache file, current.Diff(old)
ListFilesSwapped ==
    /\ pc = "start"
    /\ current' = tree
    /\ old' = cacheFile
    /\ diff' = Diff(old', current')
    /\ pc' = "listed"
    /\ UNCHANGED <<optVars, auxVars, cacheFile, seedIdx, exitCode, written, pipeVars, ghostVars>>
ListFiles ==
    /\ pc = "start"
    /\ current' = tree
    /\ old' = cacheFile
    /\ diff' = Diff(current', old')
    /\ pc' = "listed"
    /\ UNCHANGED <<optVars, auxVars, cacheFile, seedIdx, exitCode, written, pipeVars, ghostVars>>

NextDiff == ListFiles

SpecDiff == InitDiff /\ [][NextDiff]_vars

\* ------------------------------------------------------- repeated runs
\* the program is started again on the same tree with the same options; the
\* cache file is what the run before left behind
NextRun ==
    /\ pc = "done"
    /\ prevRun' = IF written /\ rejected = <<>> THEN "clean" ELSE "other"
    /\ pc' = "start"
    /\ current' = <<>>
    /\ old' = <<>>
    /\ diff' = {}
    /\ seedIdx' = 1
    /\ exitCode' = Success
    /\ written' = FALSE
    /\ closed' = FALSE
    /\ wgUploads' = 0
    /\ wgWorkers' = 0
    /\ rejected' = <<>>
    /\ wpc' = [w \in Workers |-> "none"]
    /\ wsrc' = [w \in Workers |-> 0]
    /\ loc' = [p \in Files |-> "absent"]
    /\ attempts' = [p \in Files |-> 0]
    /\ calls' = [p \in Files |-> 0]
    /\ delays' = [p \in Files |-> <<>>]
    /\ lastErr' = [p \in Files |-> "none"]
    /\ UNCHANGED <<optVars, cacheFile, notRunVars>>

NextRuns ==
    \/ Next
    \/ NextRun

SpecRuns == Init /\ [][NextRuns]_vars

\* ------------------------------------------------------ syncedList.add
\* an empty syncedList shared by the workers, none of them inside add
InitList ==
    /\ OptionsOff
    /\ tree = <<>>
    /\ cacheFile = <<>>
    /\ RunAtRest
    /\ prevRun = "first"
    /\ MergeAtRest
    /\ PipeAtRest
    /\ MockAtRest
    /\ PutAtRest
    /\ ConfigAtRest
    /\ ClassifyAtRest
    /\ FlagsAtRest
    /\ slMutex = 0
    /\ slPc = [w \in Workers |-> "idle"]
    /\ slItem = [w \in Workers |-> 0]
    /\ slTmp = [w \in Workers |-> <<>>]
    /\ slAdded = [x \in Files |-> 0]
    /\ HeadersAtRest

TotalAdds == Len(rejected) + Cardinality({w \in Workers : slPc[w] \in {"lock", "read", "write"}})

\* caller w enters sl.add(x)
AddCall(w, x) ==
    /\ slPc[w] = "idle"
    /\ TotalAdds < MaxAdds
    /\ slItem' = [slItem EXCEPT ![w] = x]
    /\ slAdded' = [slAdded EXCEPT ![x] = @ + 1]
    /\ slPc' = [slPc EXCEPT ![w] = "lock"]
    /\ UNCHANGED <<optVars, mainVars, pipeVars, ghostVars, notListVars, slMutex, slTmp>>

\* sl.Lock()
AddLockNoMutex(w) ==
    /\ slPc[w] = "lock"
    /\ slMutex' = w
    /\ slPc' = [slPc EXCEPT ![w] = "read"]
    /\ UNCHANGED <<optVars, mainVars, pipeVars, ghostVars, notListVars, slItem, slTmp,
                   slAdded>>
AddLock(w) ==
    /\ slPc[w] = "lock"
    /\ slMutex = 0
    /\ slMutex' = w
    /\ slPc' = [slPc EXCEPT ![w] = "read"]
    /\ UNCHANGED <<optVars, mainVars, pipeVars, ghostVars, notListVars, slItem, slTmp,
                   slAdded>>

\* append(sl.list, item) reads sl.list
AddRead(w) ==
    /\ slPc[w] = "read"
    /\ slTmp' = [slTmp EXCEPT ![w] = rejected]
    /\ slPc' = [slPc EXCEPT ![w] = "write"]
    /\ UNCHANGED <<optVars, mainVars, pipeVars, ghostVars, notListVars, slMutex, slItem,
                   slAdded>>

\* sl.list = the slice read, with item appended
AddWrite(w) ==
    /\ slPc[w] = "write"
    /\ rejected' = Append(slTmp[w], slItem[w])
    /\ slPc' = [slPc EXCEPT ![w] = "unlock"]
    /\ UNCHANGED <<optVars, mainVars, ghostVars, notListVars, slMutex, slItem, slTmp,
                   slAdded, closed, wgUploads, wgWorkers, wpc, wsrc, loc, attempts>>

\* sl.Unlock(), add returns
AddUnlock(w) ==
    /\ slPc[w] = "unlock"
    /\ slMutex' = 0
    /\ slItem' = [slItem EXCEPT ![w] = 0]
    /\ slTmp' = [slTmp EXCEPT ![w] = <<>>]
    /\ slPc' = [slPc EXCEPT ![w] = "idle"]
    /\ UNCHANGED <<optVars, mainVars, pipeVars, ghostVars, notListVars, slAdded>>

Add(w) ==
    \/ \E x \in Files : AddCall(w, x)
    \/ AddLock(w)
    \/ AddRead(w)
    \/ AddWrite(w)
    \/ AddUnlock(w)

NextList == \E w \in Workers : Add(w)

SpecList == InitList /\ [][NextList]_vars

\* ---------------------------------------------------- header resolution
\* A path is a sequence of pieces; the pieces are the substrings the
\* patterns of customHeadersDef tell apart.
Tokens == {"index", "articole/", "images/", "a", "jpg",
           ".html", ".xml", ".ico", ".js", ".css", ".jpg", ".PNG", ".txt"}
Paths == UNION {[1..n -> Tokens] : n \in 1..MaxPathLen}

\* A pattern "lit" (unanchored), "lit.*last$" or "last$": lit is found
\* somewhere in the path and, when the pattern is anchored, the path ends in
\* one of last after it.
Match(rule, path) ==
    \E i \in 1..(Len(path) - Len(rule.lit) + 1) :
        /\ SubSeq(path, i, i + Len(rule.lit) - 1) = rule.lit
        /\ \/ rule.last = {}
           \/ /\ i + Len(rule.lit) - 1 < Len(path)
              /\ path[Len(path)] \in rule.last

Gzip(cc) == [ContentEncoding |-> "gzip", CacheControl |-> cc]
Plain(cc) == [ContentEncoding |-> "", CacheControl |-> cc]

\* Order matters: first hit, first served.
customHeadersDefReordered ==
    << [lit |-> <<>>, last |-> {".html"}, hdr |-> Gzip("max-age=3600")],
       [lit |-> <<"articole/">>, last |-> {".html"}, hdr |-> Gzip("max-age=3600")],
       [lit |-> <<"index", ".html">>, last |-> {}, hdr |-> Gzip("max-age=1800")],
       [lit |-> <<>>, last |-> {".xml"}, hdr |-> Gzip("max-age=1800")],
       [lit |-> <<>>, last |-> {".ico"}, hdr |-> Gzip("max-age=31536000")],
       [lit |-> <<>>, last |-> {".js", ".css"}, hdr |-> Gzip("max-age=31536000")],
       [lit |-> <<"images/", "articole/">>, last |-> {"jpg", ".jpg", ".PNG"},
        hdr |-> Plain("max-age=31536000")],
       [lit |-> <<>>, last |-> {".jpg", ".PNG"}, hdr |-> Plain("max-age=31536000")] >>
customHeadersDef ==
    << [lit |-> <<"index", ".html">>, last |-> {}, hdr |-> Gzip("max-age=1800")],
       [lit |-> <<"articole/">>, last |-> {".html"}, hdr |-> Gzip("max-age=3600")],
       [lit |-> <<>>, last |-> {".html"}, hdr |-> Gzip("max-age=3600")],
       [lit |-> <<>>, last |-> {".xml"}, hdr |-> Gzip("max-age=1800")],
       [lit |-> <<>>, last |-> {".ico"}, hdr |-> Gzip("max-age=31536000")],
       [lit |-> <<>>, last |-> {".js", ".css"}, hdr |-> Gzip("max-age=31536000")],
       [lit |-> <<"images/", "articole/">>, last |-> {"jpg", ".jpg", ".PNG"},
        hdr |-> Plain("max-age=31536000")],
       [lit |-> <<>>, last |-> {".jpg", ".PNG"}, hdr |-> Plain("max-age=31536000")] >>

\* newSourceFile(fname) for any path, before its headers are looked up
InitHeaders ==
    /\ OptionsOff
    /\ tree = <<>>
    /\ cacheFile = <<>>
    /\ RunAtRest
    /\ prevRun = "first"
    /\ MergeAtRest
    /\ PipeAtRest
    /\ MockAtRest
    /\ PutAtRest
    /\ ConfigAtRest
    /\ ClassifyAtRest
    /\ FlagsAtRest
    /\ ListAtRest
    /\ hPath \in Paths
    /\ hIdx = 1
    /\ hResult = Unresolved

Scanning == hResult.rule = -1 /\ hIdx \in 1..Len(customHeadersDef)

\* the rule at hIdx does not match: on to the next one
ScanNext ==
    /\ Scanning
    /\ ~Match(customHeadersDef[hIdx], hPath)
    /\ hIdx' = hIdx + 1
    /\ UNCHANGED <<optVars, mainVars, pipeVars, ghostVars, notHdrVars, hPath, hResult>>

\* the rule at hIdx matches: its headers are the result
ScanHit ==
    /\ Scanning
    /\ Match(customHeadersDef[hIdx], hPath)
    /\ hResult' = [rule |-> hIdx,
                   hdr |-> customHeadersDef[hIdx].hdr,
                   gzip |-> customHeadersDef[hIdx].hdr.ContentEncoding = "gzip"]
    /\ UNCHANGED <<optVars, mainVars, pipeVars, ghostVars, notHdrVars, hPath, hIdx>>

\* no rule matched: empty headers, no compression
ScanMiss ==
    /\ hResult.rule = -1
    /\ hIdx = Len(customHeadersDef) + 1
    /\ hResult' = [rule |-> 0, hdr |-> NoHeaders, gzip |-> FALSE]
    /\ UNCHANGED <<optVars, mainVars, pipeVars, ghostVars, notHdrVars, hPath, hIdx>>

NextHeaders ==
    \/ ScanNext
    \/ ScanHit
    \/ ScanMiss

SpecHeaders == InitHeaders /\ [][NextHeaders]_vars

\* ------------------------------------------------------ flag validation
\* os.Stat outcomes for a path: nil, an IsNotExist error, another error
StatOutcomes == {"ok", "notexist", "other"}

\* validateCmdLineFlag(label, val); val is the bucket name, or the os.Stat
\* outcome of the path
validateCmdLineFlagStrict(label, val) ==
    CASE label = "Bucket Name" -> IF val = "" THEN "err" ELSE "nil"
      [] OTHER -> IF val = "ok" THEN "nil" ELSE "err"
validateCmdLineFlag(label, val) ==
    CASE label = "Bucket Name" -> IF val = "" THEN "err" ELSE "nil"
      [] label = "Cache file" -> IF val # "ok" /\ val # "notexist" THEN "err" ELSE "nil"
      [] OTHER -> IF val = "ok" THEN "nil" ELSE "err"

\* validateCmdLineFlags(opts): the first error found, if any
validateCmdLineFlags ==
    IF \/ validateCmdLineFlag("Bucket Name", BucketName) = "err"
       \/ validateCmdLineFlag("Source", SourceStat) = "err"
       \/ validateCmdLineFlag("Cache file", CacheStat) = "err"
    THEN "err" ELSE "nil"

\* main() is entered with any flags; a path that cannot be read holds nothing
InitStartup ==
    /\ OptionsOff
    /\ BucketName \in {"", "bucket"}
    /\ SourceStat \in StatOutcomes
    /\ CacheStat \in StatOutcomes
    /\ tree \in FileHashesOver(Files)
    /\ SourceStat # "ok" => tree = <<>>
    /\ cacheFile \in FileHashesOver(Files)
    /\ CacheStat # "ok" => cacheFile = <<>>
    /\ pc = "validate"
    /\ current = <<>>
    /\ old = <<>>
    /\ diff = {}
    /\ seedIdx = 1
    /\ exitCode = Success
    /\ written = FALSE
    /\ closed = FALSE
    /\ wgUploads = 0
    /\ wgWorkers = 0
    /\ rejected = <<>>
    /\ wpc = [w \in Workers |-> "none"]
    /\ wsrc = [w \in Workers |-> 0]
    /\ loc = [p \in Files |-> "absent"]
    /\ attempts = [p \in Files |-> 0]
    /\ calls = [p \in Files |-> 0]
    /\ delays = [p \in Files |-> <<>>]
    /\ lastErr = [p \in Files |-> "none"]
    /\ prevRun = "first"
    /\ MergeAtRest
    /\ PipeAtRest
    /\ MockAtRest
    /\ PutAtRest
    /\ ConfigAtRest
    /\ ClassifyAtRest
    /\ ListAtRest
    /\ HeadersAtRest

\* validateCmdLineFlags(opts) returns nil
ValidateOk ==
    /\ pc = "validate"
    /\ validateCmdLineFlags = "nil"
    /\ pc' = "start"
    /\ UNCHANGED <<optVars, auxVars, cacheFile, current, old, diff, seedIdx, exitCode,
                   written, pipeVars, ghostVars>>

\* "Required field missing", os.Exit(CmdLineOptionError)
ValidateFail ==
    /\ pc = "validate"
    /\ validateCmdLineFlags = "err"
    /\ exitCode' = CmdLineOptionError
    /\ pc' = "done"
    /\ UNCHANGED <<optVars, auxVars, cacheFile, current, old, diff, seedIdx, written,
                   pipeVars, ghostVars>>

NextStartup ==
    \/ ValidateOk
    \/ ValidateFail
    \/ ListFiles

SpecStartup == InitStartup /\ [][NextStartup]_vars

\* -------------------------------------------------- error classification
\* the errors the test constructors build, by their S3 error code
NewRecoverableError == "RequestTimeout"
NewNetworkError == "NoSuchHost"
NewAccessDeniedError == "AccessDenied"
NewBucketNotFoundError == "NoSuchBucket"
\* errors.New("Some made up error")
MadeUpError == "MadeUp"
AllErrors == Errors \cup {MadeUpError}

\* a store call returned any of the errors, for an item with any attempt count
InitClassify ==
    /\ OptionsOff
    /\ tree = <<>>
    /\ cacheFile = <<>>
    /\ RunAtRest
    /\ ListAtRest
    /\ HeadersAtRest
    /\ FlagsAtRest
    /\ prevRun = "first"
    /\ MergeAtRest
    /\ PipeAtRest
    /\ MockAtRest
    /\ PutAtRest
    /\ ConfigAtRest
    /\ clErr \in AllErrors
    /\ clAttempts \in 0..(maxTries + 1)
    /\ clResult = "none"

\* !isRecoverable(err) in upload()
Classify ==
    /\ clResult = "none"
    /\ clErr # "none"
    /\ clResult' = ErrorKind(clErr)
    /\ UNCHANGED <<optVars, mainVars, pipeVars, ghostVars, notClassVars,
                   clErr, clAttempts>>

\* the next error comes back
NextError(err, a) ==
    /\ clResult # "none"
    /\ clErr' = err
    /\ clAttempts' = a
    /\ clResult' = "none"
    /\ UNCHANGED <<optVars, mainVars, pipeVars, ghostVars, notClassVars>>

NextClassify ==
    \/ Classify
    \/ \E err \in AllErrors, a \in 0..(maxTries + 1) : NextError(err, a)

SpecClassify == InitClassify /\ [][NextClassify]_vars

\* ------------------------------------------------------------- init()
\* values of an integer option; 0 is the zero value (omitempty, not set)
Vals == 1..MaxVal

\* var opts = &options{...}: the built-in defaults
DefaultOpts == [WorkersCount |-> 1, Encrypt |-> FALSE, cfgFile |-> "default"]

\* a config file: missing, not decodable, or a JSON object
NoFile == [status |-> "missing", WorkersCount |-> 0, Encrypt |-> FALSE]
BadFile == [status |-> "invalid", WorkersCount |-> 0, Encrypt |-> FALSE]
CfgFiles ==
    {NoFile, BadFile} \cup
    [status : {"ok"}, WorkersCount : {0} \cup Vals, Encrypt : BOOLEAN]

\* a command line: -workers n (0: flag not given), -encrypt[=false],
\* -cfgfile other, -save, -version
CmdLines ==
    [workers : {0} \cup Vals, encrypt : {"unset", "true", "false"},
     cfgfile : BOOLEAN, save : BOOLEAN, version : BOOLEAN]

\* the zero value of a field of options
Zero(f) ==
    CASE f = "WorkersCount" -> 0
      [] f \in {"Encrypt", "dryRun"} -> FALSE
      [] OTHER -> ""

\* the fields options.merge looks at
MergedFields ==
    {"WorkersCount", "BucketName", "Source", "CacheFile", "Region", "Profile", "Encrypt"}

\* a merge that copies every field it looks at, zero or not
mergeCopiesZero(o, other) ==
    [f \in DOMAIN o |-> IF f \in MergedFields THEN other[f] ELSE o[f]]

\* options.merge: if x := other.F; x != zero { o.F = x }, for each of the
\* fields it looks at
merge(o, other) ==
    [f \in DOMAIN o |->
        IF f \in MergedFields /\ other[f] # Zero(f) THEN other[f] ELSE o[f]]

\* processCmdLineFlags: each flag defaults to the current value of opts
processCmdLineFlags(o, fl) ==
    [WorkersCount |-> IF fl.workers # 0 THEN fl.workers ELSE o.WorkersCount,
     Encrypt |-> IF fl.encrypt = "unset" THEN o.Encrypt ELSE fl.encrypt = "true",
     cfgFile |-> IF fl.cfgfile THEN "other" ELSE o.cfgFile]

InitConfig ==
    /\ OptionsOff
    /\ tree = <<>>
    /\ cacheFile = <<>>
    /\ RunAtRest
    /\ prevRun = "first"
    /\ MergeAtRest
    /\ PipeAtRest
    /\ MockAtRest
    /\ PutAtRest
    /\ ListAtRest
    /\ HeadersAtRest
    /\ FlagsAtRest
    /\ ClassifyAtRest
    /\ cfPc = "restore"
    /\ cfOpts = DefaultOpts
    /\ cfFlags \in CmdLines
    /\ cfDefaultFile \in CfgFiles
    /\ cfOtherFile \in CfgFiles

cfgFrame == <<optVars, cacheFile, pc, current, old, diff, seedIdx, written, pipeVars,
              ghostVars, notCfgVars>>

\* opts.restore(opts.cfgFile): file missing (nil) or decoded and merged
RestoreDefault ==
    /\ cfPc = "restore"
    /\ cfDefaultFile.status # "invalid"
    /\ cfOpts' = IF cfDefaultFile.status = "ok" THEN merge(cfOpts, cfDefaultFile) ELSE cfOpts
    /\ cfPc' = "flags"
    /\ UNCHANGED <<cfgFrame, exitCode, cfFlags, cfDefaultFile, cfOtherFile>>

\* opts.restore fails: abort(err), os.Exit(SetupFailed)
RestoreDefaultFails ==
    /\ cfPc = "restore"
    /\ cfDefaultFile.status = "invalid"
    /\ cfPc' = "aborted"
    /\ exitCode' = SetupFailed
    /\ UNCHANGED <<cfgFrame, cfOpts, cfFlags, cfDefaultFile, cfOtherFile>>

\* processCmdLineFlags(opts), then opts.version: print and os.Exit(Success)
ParseFlags ==
    /\ cfPc = "flags"
    /\ cfOpts' = processCmdLineFlags(cfOpts, cfFlags)
    /\ cfPc' = IF cfFlags.version THEN "exited" ELSE "cfgfile"
    /\ UNCHANGED <<cfgFrame, exitCode, cfFlags, cfDefaultFile, cfOtherFile>>

\* opts.cfgFile == oldCfgFile: nothing more to restore
SameCfgFile ==
    /\ cfPc = "cfgfile"
    /\ cfOpts.cfgFile = "default"
    /\ cfPc' = "save"
    /\ UNCHANGED <<cfgFrame, exitCode, cfOpts, cfFlags, cfDefaultFile, cfOtherFile>>

\* opts.cfgFile != oldCfgFile: opts.restore(opts.cfgFile)
RestoreNamed ==
    /\ cfPc = "cfgfile"
    /\ cfOpts.cfgFile # "default"
    /\ cfOtherFile.status # "invalid"
    /\ cfOpts' = IF cfOtherFile.status = "ok" THEN merge(cfOpts, cfOtherFile) ELSE cfOpts
    /\ cfPc' = "save"
    /\ UNCHANGED <<cfgFrame, exitCode, cfFlags, cfDefaultFile, cfOtherFile>>

\* the second opts.restore fails: abort(err)
RestoreNamedFails ==
    /\ cfPc = "cfgfile"
    /\ cfOpts.cfgFile # "default"
    /\ cfOtherFile.status = "invalid"
    /\ cfPc' = "aborted"
    /\ exitCode' = SetupFailed
    /\ UNCHANGED <<cfgFrame, cfOpts, cfFlags, cfDefaultFile, cfOtherFile>>

\* !opts.saveCfg, or opts.dump(opts.cfgFile) writes the current options
SaveCfg ==
    /\ cfPc = "save"
    /\ cfPc' = "ready"
    /\ LET f == [status |-> "ok", WorkersCount |-> cfOpts.WorkersCount,
                 Encrypt |-> cfOpts.Encrypt]
       IN /\ cfDefaultFile' = IF cfFlags.save /\ cfOpts.cfgFile = "default"
                              THEN f ELSE cfDefaultFile
          /\ cfOtherFile' = IF cfFlags.save /\ cfOpts.cfgFile # "default"
                            THEN f ELSE cfOtherFile
    /\ UNCHANGED <<cfgFrame, exitCode, cfOpts, cfFlags>>

\* opts.dump fails: abort(err)
SaveCfgFails ==
    /\ cfPc = "save"
    /\ cfFlags.save
    /\ cfPc' = "aborted"
    /\ exitCode' = SetupFailed
    /\ UNCHANGED <<cfgFrame, cfOpts, cfFlags, cfDefaultFile, cfOtherFile>>

NextConfig ==
    \/ RestoreDefault
    \/ RestoreDefaultFails
    \/ ParseFlags
    \/ SameCfgFile
    \/ RestoreNamed
    \/ RestoreNamedFails
    \/ SaveCfg
    \/ SaveCfgFails

SpecConfig == InitConfig /\ [][NextConfig]_vars

\* -------------------------------------------- the upload function, gzip
\* errors raised on the way to the store call
OpenError == "OpenError"
CompressionError == "CompressionError"
GzipCloseError == "GzipCloseError"
NotInitializedError == "s3 uploader is not initialized"

\* one call of the function s3putGenWithUploader returns, for an item with
\* any attempt count: an uploader was given or not, the file opens or not,
\* the compressor copies all bytes or fails in io.Copy or in gz.Close, the
\* store accepts the object or answers with an error
PutInputs ==
    [u : {"nil", "set"}, gzip : BOOLEAN, open : {"ok", "fail"},
     copy : {"ok", "copyErr", "closeErr"}, store : {"nil"} \cup Errors]

InitPut ==
    /\ WorkersCount = 0
    /\ doUpload = FALSE
    /\ doCache = FALSE
    /\ dryRun = FALSE
    /\ appEnv \in {"production", testEnv}
    /\ tree = <<>>
    /\ cacheFile = <<>>
    /\ RunAtRest
    /\ prevRun = "first"
    /\ MergeAtRest
    /\ PipeAtRest
    /\ MockAtRest
    /\ ListAtRest
    /\ HeadersAtRest
    /\ FlagsAtRest
    /\ ClassifyAtRest
    /\ ConfigAtRest
    /\ spIn \in PutInputs
    /\ spPc = "open"
    /\ spPipe = "none"
    /\ spErr = "none"
    /\ spAttempts \in 0..(maxTries - 1)
    /\ spNext = "none"

putFrame == <<optVars, mainVars, pipeVars, ghostVars, notPutVars, spIn>>

\* appEnv == testEnv && u == nil: the function is func(*sourceFile) error
\* { return nil }
NoOpPut ==
    /\ spPc = "open"
    /\ spIn.u = "nil"
    /\ appEnv = testEnv
    /\ spErr' = "nil"
    /\ spPc' = "returned"
    /\ UNCHANGED <<putFrame, spPipe, spAttempts, spNext>>

\* u == nil outside the test environment: the function returns
\* "s3 uploader is not initialized"
NotInitialized ==
    /\ spPc = "open"
    /\ spIn.u = "nil"
    /\ appEnv # testEnv
    /\ spErr' = NotInitializedError
    /\ spPc' = "returned"
    /\ UNCHANGED <<putFrame, spPipe, spAttempts, spNext>>

\* os.Open succeeds; without src.gzip the body is the file
OpenFile ==
    /\ spPc = "open"
    /\ spIn.u = "set"
    /\ spIn.open = "ok"
    /\ spPc' = IF spIn.gzip THEN "compress" ELSE "upload"
    /\ UNCHANGED <<putFrame, spPipe, spErr, spAttempts, spNext>>

\* a failed os.Open that is not looked at
OpenFailsIgnored ==
    /\ spPc = "open"
    /\ spIn.u = "set"
    /\ spIn.open = "fail"
    /\ spPc' = "upload"
    /\ UNCHANGED <<putFrame, spPipe, spErr, spAttempts, spNext>>

\* os.Open fails: return err
OpenFails ==
    /\ spPc = "open"
    /\ spIn.u = "set"
    /\ spIn.open = "fail"
    /\ spErr' = OpenError
    /\ spPc' = "returned"
    /\ UNCHANGED <<putFrame, spPipe, spAttempts, spNext>>

\* src.gzip: the goroutine copies the file through gzip into the pipe and
\* closes it
CompressOk ==
    /\ spPc = "compress"
    /\ spIn.copy = "ok"
    /\ spPipe' = "closed"
    /\ spPc' = "upload"
    /\ UNCHANGED <<putFrame, spErr, spAttempts, spNext>>

\* io.Copy or gz.Close fails: pw.CloseWithError(...)
CompressFailsSilently ==
    /\ spPc = "compress"
    /\ spIn.copy # "ok"
    /\ spPipe' = "closed"
    /\ spPc' = "upload"
    /\ UNCHANGED <<putFrame, spErr, spAttempts, spNext>>
CompressFails ==
    /\ spPc = "compress"
    /\ spIn.copy # "ok"
    /\ spPipe' = IF spIn.copy = "copyErr" THEN CompressionError ELSE GzipCloseError
    /\ spPc' = "upload"
    /\ UNCHANGED <<putFrame, spErr, spAttempts, spNext>>

\* _, err = u.Upload(ctx, input): the uploader reads the body to its end,
\* then the store answers; when the pipe was closed with an error the read
\* fails with it, unless the store has answered with its own error before;
\* return err
StoreUpload ==
    /\ spPc = "upload"
    /\ spErr' \in IF spPipe \in {"none", "closed"}
                  THEN {spIn.store}
                  ELSE {spPipe} \cup ({spIn.store} \ {"nil"})
    /\ spPc' = "returned"
    /\ UNCHANGED <<putFrame, spPipe, spAttempts, spNext>>

\* upload(): err == nil: wgUploads.Done(), continue
HandleNil ==
    /\ spPc = "returned"
    /\ spErr = "nil"
    /\ spNext' = "uploaded"
    /\ spPc' = "handled"
    /\ UNCHANGED <<putFrame, spPipe, spErr, spAttempts>>

\* upload(): src.recordAttempt(), then reject or retry
HandleErr ==
    /\ spPc = "returned"
    /\ spErr # "nil"
    /\ spAttempts' = recordAttempt(spAttempts)
    /\ spNext' = IF ShouldReject(spAttempts', spErr) THEN "rejected" ELSE "retry"
    /\ spPc' = "handled"
    /\ UNCHANGED <<putFrame, spPipe, spErr>>

NextPut ==
    \/ NoOpPut
    \/ NotInitialized
    \/ OpenFile
    \/ OpenFails
    \/ CompressOk
    \/ CompressFails
    \/ StoreUpload
    \/ HandleNil
    \/ HandleErr

SpecPut == InitPut /\ [][NextPut]_vars

\* ---------------------------------------------------------------- MockS3Uploader
\* the error of Upload when io.ReadAll(input.Body) fails
ReadError == "mock: failed to read body"

\* the err handed to ErrorNTimes
InjectedError == "temporary failure"

\* the bodies an UploadInput can carry: none, one that reads to its end, one
\* whose Read fails (the read end of a pipe closed with an error)
Bodies == {"nil", "ok", "fail"}

UploadInputs == [key : Files, body : Bodies]

\* a closure that fails its n-th call alone
ErrorNTimesOnlyNth(count, n) == IF count = n THEN InjectedError ELSE "nil"

\* what the closure of ErrorNTimes(n, err) returns on its count-th call
ErrorNTimes(count, n) == IF count <= n THEN InjectedError ELSE "nil"

\* a fresh mock with ErrorFunc = ErrorNTimes(injN, err), used by MaxWorkers
\* goroutines
InitMock ==
    /\ OptionsOff
    /\ tree = <<>>
    /\ cacheFile = <<>>
    /\ RunAtRest
    /\ prevRun = "first"
    /\ MergeAtRest
    /\ PipeAtRest
    /\ ListAtRest
    /\ HeadersAtRest
    /\ FlagsAtRest
    /\ ClassifyAtRest
    /\ ConfigAtRest
    /\ PutAtRest
    /\ mkMu = 0
    /\ mkPc = [w \in Workers |-> "none"]
    /\ mkIn = [w \in Workers |-> <<>>]
    /\ mkTmp = [w \in Workers |-> 0]
    /\ mkErr = [w \in Workers |-> "none"]
    /\ mkRet = [w \in Workers |-> "none"]
    /\ mkCount = 0
    /\ mkUploads = <<>>
    /\ mkStarted = 0
    /\ mkReadFails = 0
    /\ injCount = 0
    /\ injN \in 0..MaxCalls
    /\ mkAtReset = 0
    /\ mkResets = 0

mockFrame == <<optVars, mainVars, pipeVars, ghostVars, notMockVars, injN, mkAtReset, mkResets>>

\* a goroutine calls mock.Upload(ctx, input)
UploadCall(w, input) ==
    /\ mkPc[w] = "none"
    /\ mkStarted < MaxCalls
    /\ mkStarted' = mkStarted + 1
    /\ mkIn' = [mkIn EXCEPT ![w] = input]
    /\ mkErr' = [mkErr EXCEPT ![w] = "none"]
    /\ mkRet' = [mkRet EXCEPT ![w] = "none"]
    /\ mkPc' = [mkPc EXCEPT ![w] = "lock"]
    /\ UNCHANGED <<mockFrame, mkMu, mkTmp, mkCount, mkUploads, mkReadFails, injCount>>

\* m.mu.Lock()
MockLock(w) ==
    /\ mkPc[w] = "lock"
    /\ mkMu = 0
    /\ mkMu' = w
    /\ mkPc' = [mkPc EXCEPT ![w] = "count"]
    /\ UNCHANGED <<mockFrame, mkIn, mkTmp, mkErr, mkRet, mkCount, mkUploads, mkStarted,
                   mkReadFails, injCount>>

\* m.UploadCount++ : the read
CountRead(w) ==
    /\ mkPc[w] = "count"
    /\ mkTmp' = [mkTmp EXCEPT ![w] = mkCount]
    /\ mkPc' = [mkPc EXCEPT ![w] = "incr"]
    /\ UNCHANGED <<mockFrame, mkMu, mkIn, mkErr, mkRet, mkCount, mkUploads, mkStarted,
                   mkReadFails, injCount>>

\* m.UploadCount++ : the write
CountWrite(w) ==
    /\ mkPc[w] = "incr"
    /\ mkCount' = mkTmp[w] + 1
    /\ mkPc' = [mkPc EXCEPT ![w] = "read"]
    /\ UNCHANGED <<mockFrame, mkMu, mkIn, mkTmp, mkErr, mkRet, mkUploads, mkStarted,
                   mkReadFails, injCount>>

\* input.Body is nil, or io.ReadAll reads it to its end
ReadBody(w) ==
    /\ mkPc[w] = "read"
    /\ mkIn[w].body \in {"nil", "ok"}
    /\ mkPc' = [mkPc EXCEPT ![w] = "inject"]
    /\ UNCHANGED <<mockFrame, mkMu, mkIn, mkTmp, mkErr, mkRet, mkCount, mkUploads,
                   mkStarted, mkReadFails, injCount>>

\* io.ReadAll fails: Upload returns the read error, the deferred Unlock runs
ReadBodyFails(w) ==
    /\ mkPc[w] = "read"
    /\ mkIn[w].body = "fail"
    /\ mkRet' = [mkRet EXCEPT ![w] = ReadError]
    /\ mkReadFails' = mkReadFails + 1
    /\ mkMu' = 0
    /\ mkPc' = [mkPc EXCEPT ![w] = "none"]
    /\ UNCHANGED <<mockFrame, mkIn, mkTmp, mkErr, mkCount, mkUploads, mkStarted, injCount>>

\* err = m.ErrorFunc(input): the closure locks its own mutex, counts the call
\* and answers by the count alone
Inject(w) ==
    /\ mkPc[w] = "inject"
    /\ injCount' = injCount + 1
    /\ mkErr' = [mkErr EXCEPT ![w] = ErrorNTimes(injCount', injN)]
    /\ mkPc' = [mkPc EXCEPT ![w] = "record"]
    /\ UNCHANGED <<mockFrame, mkMu, mkIn, mkTmp, mkRet, mkCount, mkUploads, mkStarted,
                   mkReadFails>>

\* recorded.Error = err; m.Uploads = append(m.Uploads, recorded)
Record(w) ==
    /\ mkPc[w] = "record"
    /\ mkUploads' = Append(mkUploads, [key |-> mkIn[w].key, by |-> w, error |-> mkErr[w]])
    /\ mkPc' = [mkPc EXCEPT ![w] = "return"]
    /\ UNCHANGED <<mockFrame, mkMu, mkIn, mkTmp, mkErr, mkRet, mkCount, mkStarted,
                   mkReadFails, injCount>>

\* Upload returns err or the output, the deferred Unlock runs
UploadReturn(w) ==
    /\ mkPc[w] = "return"
    /\ mkRet' = [mkRet EXCEPT ![w] = mkErr[w]]
    /\ mkMu' = 0
    /\ mkPc' = [mkPc EXCEPT ![w] = "none"]
    /\ UNCHANGED <<mockFrame, mkIn, mkTmp, mkErr, mkCount, mkUploads, mkStarted,
                   mkReadFails, injCount>>

Upload(w) ==
    \/ \E input \in UploadInputs : UploadCall(w, input)
    \/ MockLock(w)
    \/ CountRead(w)
    \/ CountWrite(w)
    \/ ReadBody(w)
    \/ ReadBodyFails(w)
    \/ Inject(w)
    \/ Record(w)
    \/ UploadReturn(w)

NextMock == \E w \in Workers : Upload(w)

SpecMock == InitMock /\ [][NextMock]_vars

\* mock.Reset(): under m.mu, Uploads and UploadCount are cleared; the count
\* of an injector is not touched
Reset ==
    /\ mkMu = 0
    /\ mkResets < MaxResets
    /\ mkUploads' = <<>>
    /\ mkCount' = 0
    /\ mkReadFails' = 0
    /\ mkAtReset' = mkStarted - Cardinality({w \in Workers : mkPc[w] = "lock"})
    /\ mkResets' = mkResets + 1
    /\ UNCHANGED <<optVars, mainVars, pipeVars, ghostVars, notMockVars, injN, mkMu, mkPc, mkIn,
                   mkTmp, mkErr, mkRet, mkStarted, injCount>>

NextMockReset ==
    \/ NextMock
    \/ Reset

SpecMockReset == InitMock /\ [][NextMockReset]_vars

\* ---------------------------------------------------------------- the gzip pipe
\* the error of a Read on a file that the deferred f.Close() has closed
FileClosedError == "file already closed"

\* one call of the upload function for a gzip-flagged file: the compressor
\* has to make `writes` writes to the pipe (the last one in gz.Close); it
\* copies all bytes, or fails in io.Copy or in gz.Close; the store reads the
\* body to its end and answers nil or an error, or answers an error while
\* part of the body is unread
GzipInputs ==
    [writes : 1..MaxWrites, copy : {"ok", "copyErr", "closeErr"},
     store : {"ok", "errAfterBody", "errEarly"}]

StoreError == "AccessDenied"

InitPipe ==
    /\ OptionsOff
    /\ tree = <<>>
    /\ cacheFile = <<>>
    /\ RunAtRest
    /\ prevRun = "first"
    /\ MergeAtRest
    /\ ListAtRest
    /\ HeadersAtRest
    /\ FlagsAtRest
    /\ ClassifyAtRest
    /\ ConfigAtRest
    /\ PutAtRest
    /\ MockAtRest
    /\ gzIn \in GzipInputs
    /\ gzPc = "none"
    /\ gzLeft = 0
    /\ gzPending = FALSE
    /\ gzEnd = "open"
    /\ gzStPc = "none"
    /\ gzErr = "none"
    /\ gzFn = "open"

pipeFrame == <<optVars, mainVars, pipeVars, ghostVars, notPipeIoVars, gzIn>>

\* os.Open, io.Pipe(), gzip.NewWriter(pw), go func() {...}(), u.Upload(ctx, input)
StartCompressor ==
    /\ gzFn = "open"
    /\ gzFn' = "running"
    /\ gzPc' = "copy"
    /\ gzLeft' = gzIn.writes
    /\ gzStPc' = "reading"
    /\ UNCHANGED <<pipeFrame, gzPending, gzEnd, gzErr>>

\* the compressor calls pw.Write, from io.Copy or from gz.Close: the call
\* blocks until a reader has taken the data
PipeWrite ==
    /\ gzPc = "copy"
    /\ gzLeft > 0
    /\ gzPc' = "blocked"
    /\ gzPending' = TRUE
    /\ UNCHANGED <<pipeFrame, gzLeft, gzEnd, gzStPc, gzErr, gzFn>>

\* the store reads the body: it takes the pending write, pw.Write returns
StoreRead ==
    /\ gzStPc = "reading"
    /\ gzPending
    /\ gzPending' = FALSE
    /\ gzPc' = "copy"
    /\ gzLeft' = gzLeft - 1
    /\ UNCHANGED <<pipeFrame, gzEnd, gzStPc, gzErr, gzFn>>

\* io.Copy(gz, f) fails: pw.CloseWithError("compression error"), return
CopyFails ==
    /\ gzPc = "copy"
    /\ gzLeft > 1
    /\ gzIn.copy = "copyErr"
    /\ gzEnd' = CompressionError
    /\ gzPc' = "done"
    /\ UNCHANGED <<pipeFrame, gzLeft, gzPending, gzStPc, gzErr, gzFn>>

\* f.Read in io.Copy fails because the function has returned and closed f
ReadOfClosedFile ==
    /\ gzPc = "copy"
    /\ gzLeft > 1
    /\ gzFn = "returned"
    /\ gzEnd' = CompressionError
    /\ gzPc' = "done"
    /\ UNCHANGED <<pipeFrame, gzLeft, gzPending, gzStPc, gzErr, gzFn>>

\* gz.Close() fails: pw.CloseWithError("gzip close error"), return
GzCloseFails ==
    /\ gzPc = "copy"
    /\ gzLeft = 1
    /\ gzIn.copy = "closeErr"
    /\ gzEnd' = GzipCloseError
    /\ gzPc' = "done"
    /\ UNCHANGED <<pipeFrame, gzLeft, gzPending, gzStPc, gzErr, gzFn>>

\* gz.Close() has written its last bytes: pw.Close(), return
PipeClose ==
    /\ gzPc = "copy"
    /\ gzLeft = 0
    /\ gzEnd' = "EOF"
    /\ gzPc' = "done"
    /\ UNCHANGED <<pipeFrame, gzLeft, gzPending, gzStPc, gzErr, gzFn>>

\* the store reads the end of the body and answers
StoreReadsEOF ==
    /\ gzStPc = "reading"
    /\ gzEnd = "EOF"
    /\ gzIn.store # "errEarly"
    /\ gzErr' = IF gzIn.store = "ok" THEN "nil" ELSE StoreError
    /\ gzStPc' = "returned"
    /\ UNCHANGED <<pipeFrame, gzPc, gzLeft, gzPending, gzEnd, gzFn>>

\* the store's read returns the error the pipe was closed with
StoreReadFails ==
    /\ gzStPc = "reading"
    /\ gzEnd \in {CompressionError, GzipCloseError}
    /\ gzErr' = gzEnd
    /\ gzStPc' = "returned"
    /\ UNCHANGED <<pipeFrame, gzPc, gzLeft, gzPending, gzEnd, gzFn>>

\* the store answers with an error and reads no further
StoreGivesUp ==
    /\ gzStPc = "reading"
    /\ gzIn.store = "errEarly"
    /\ gzErr' = StoreError
    /\ gzStPc' = "returned"
    /\ UNCHANGED <<pipeFrame, gzPc, gzLeft, gzPending, gzEnd, gzFn>>

\* _, err = u.Upload(ctx, input); return err; the deferred f.Close() runs
PutReturns ==
    /\ gzFn = "running"
    /\ gzStPc = "returned"
    /\ gzFn' = "returned"
    /\ UNCHANGED <<pipeFrame, gzPc, gzLeft, gzPending, gzEnd, gzStPc, gzErr>>

NextPipe ==
    \/ StartCompressor
    \/ PipeWrite
    \/ StoreRead
    \/ CopyFails
    \/ ReadOfClosedFile
    \/ GzCloseFails
    \/ PipeClose
    \/ StoreReadsEOF
    \/ StoreReadFails
    \/ StoreGivesUp
    \/ PutReturns

SpecPipe == InitPipe /\ [][NextPipe]_vars

\* ---------------------------------------------------------------- options.merge, restore
\* the fields of options written to and read from the config file (those
\* with a json tag)
Persisted ==
    {"BucketName", "Source", "CacheFile", "Region", "Profile", "WorkersCount", "Encrypt"}

\* receivers: opts as it can be when merge or restore is called
Receivers ==
    [WorkersCount : {0, 1}, BucketName : {"", "o"}, Source : {"output"},
     CacheFile : {".go-s3-uploader.txt"}, Region : {"", "o"}, Profile : {"", "o"},
     Encrypt : BOOLEAN, dryRun : BOOLEAN, cfgFile : {".go-s3-uploader.json"}]

\* the options merged in
Others ==
    [WorkersCount : {0, 2}, BucketName : {"", "x"}, Source : {"", "x"},
     CacheFile : {"", "x"}, Region : {"", "x"}, Profile : {"", "x"},
     Encrypt : BOOLEAN, dryRun : BOOLEAN, cfgFile : {"x"}]

\* tmp := options{}; dec.Decode(&tmp): only the persisted fields are read
Decode(content) ==
    [f \in DOMAIN content |-> IF f \in Persisted THEN content[f] ELSE Zero(f)]

DecodeError == "DecodeError"

InitMerge ==
    /\ OptionsOff
    /\ tree = <<>>
    /\ cacheFile = <<>>
    /\ RunAtRest
    /\ prevRun = "first"
    /\ ListAtRest
    /\ HeadersAtRest
    /\ FlagsAtRest
    /\ ClassifyAtRest
    /\ ConfigAtRest
    /\ PutAtRest
    /\ MockAtRest
    /\ PipeAtRest
    /\ mgO \in Receivers
    /\ mgOther \in Others
    /\ mgFile \in {"missing", "invalid", "ok"}
    /\ mgPc = "start"
    /\ mgRes = mgO
    /\ mgErr = "none"
    /\ mgN = 0

mergeFrame == <<optVars, mainVars, pipeVars, ghostVars, notMergeVars, mgO, mgOther, mgFile>>

\* o.merge(other), called once or twice with the same other
Merge ==
    /\ mgPc \in {"start", "merged"}
    /\ mgN < 2
    /\ mgRes' = merge(mgRes, mgOther)
    /\ mgN' = mgN + 1
    /\ mgPc' = "merged"
    /\ UNCHANGED <<mergeFrame, mgErr>>

\* o.restore(fname): os.Open fails with IsNotExist: return nil
RestoreMissing ==
    /\ mgPc = "start"
    /\ mgFile = "missing"
    /\ mgErr' = "nil"
    /\ mgPc' = "restored"
    /\ UNCHANGED <<mergeFrame, mgRes, mgN>>

\* o.restore(fname): dec.Decode fails: return err
RestoreInvalid ==
    /\ mgPc = "start"
    /\ mgFile = "invalid"
    /\ mgErr' = DecodeError
    /\ mgPc' = "restored"
    /\ UNCHANGED <<mergeFrame, mgRes, mgN>>

\* o.restore(fname): the file is decoded into tmp, o.merge(&tmp), return nil
RestoreOk ==
    /\ mgPc = "start"
    /\ mgFile = "ok"
    /\ mgRes' = merge(mgRes, Decode(mgOther))
    /\ mgErr' = "nil"
    /\ mgPc' = "restored"
    /\ UNCHANGED <<mergeFrame, mgN>>

NextMerge ==
    \/ Merge
    \/ RestoreMissing
    \/ RestoreInvalid
    \/ RestoreOk

SpecMerge == InitMerge /\ [][NextMerge]_vars

\* ================================================================ claims
UploadPhaseRan == doUpload /\ diff # {}
Unchanged(p) == p \in DOMAIN old /\ p \in DOMAIN tree /\ old[p] = tree[p]

C2_RejectedAbsent ==
    written => \A i \in DOMAIN rejected :
        /\ rejected[i] \notin DOMAIN cacheFile
        /\ rejected[i] \in Diff(tree, cacheFile)

C2_Witness ==
    /\ written
    /\ \E p, q \in Range(rejected) :
          /\ p \in DOMAIN old /\ old[p] # tree[p]
          /\ q \notin DOMAIN old

\* C3: when the upload phase ran and the cache is written, the written set is
\* exactly current minus the rejected paths (uploaded paths with their current
\* hash, unchanged paths carried over); a run with rejections that reaches its
\* normal end with caching enabled has written it.
C3_WrittenSet ==
    /\ (written /\ UploadPhaseRan) =>
          /\ DOMAIN cacheFile = (DOMAIN tree) \ Range(rejected)
          /\ \A p \in DOMAIN cacheFile : cacheFile[p] = tree[p]
          /\ \A p \in diff : loc[p] = "uploaded" =>
                p \in DOMAIN cacheFile /\ cacheFile[p] = tree[p]
          /\ \A p \in DOMAIN tree : Unchanged(p) =>
                p \in DOMAIN cacheFile /\ cacheFile[p] = old[p]
    /\ (pc = "done" /\ UploadPhaseRan /\ doCache /\ ~dryRun /\ exitCode = Success)
          => written

C3_Witness ==
    /\ written
    /\ UploadPhaseRan
    /\ Len(rejected) >= 1
    /\ \E p \in DOMAIN tree : Unchanged(p) /\ p \in DOMAIN cacheFile

\* parts of C4
C4_Inv ==
    \A p \in Files :
        /\ calls[p] <= 10
        /\ (calls[p] = attempts[p] /\ lastErr[p] = "recoverable") =>
              \/ calls[p] < 10 /\ loc[p] \in {"timer", "send", "worker"}
              \/ /\ calls[p] = 10
                 /\ loc[p] = "failed"
                 /\ Cardinality({i \in DOMAIN rejected : rejected[i] = p}) = 1
C4_Step ==
    \A p \in Files : loc[p] = "failed" =>
        loc'[p] = "failed" /\ calls'[p] = calls[p] /\ attempts'[p] = attempts[p]
\* C4: an item whose every store call fails with a recoverable error gets
\* exactly 10 store calls, is then in the rejection log, and is never
\* attempted again.
C4_RetryBound == []C4_Inv /\ [][C4_Step]_vars

C4_Witness ==
    \E p \in Files :
        loc[p] = "failed" /\ calls[p] = 10 /\ lastErr[p] = "recoverable"

\* C5: outside the test environment the delay after an item's k-th failed
\* attempt is 100 ms * 2^k: strictly increasing, each twice the previous, and
\* a function of the item's own attempt counter only.
C5_Backoff ==
    appEnv # testEnv => \A p \in Files :
        /\ Len(delays[p]) <= 9
        /\ Retrying(p) => Len(delays[p]) = attempts[p]
        /\ \A k \in DOMAIN delays[p] :
              /\ delays[p][k] = [n |-> 100 * Pow2(k), unit |-> "ms"]
              /\ k > 1 => /\ delays[p][k].n = 2 * delays[p][k - 1].n
                          /\ delays[p][k].n > delays[p][k - 1].n

C5_Witness ==
    \E p, q \in Files :
        p # q /\ Len(delays[p]) = 9 /\ Len(delays[q]) = 2 /\ Retrying(p)

\* parts of C6
C6_Inv ==
    \A p \in Files : lastErr[p] = "fatal" =>
        /\ loc[p] = "failed"
        /\ p \in Range(rejected)
        /\ \A w \in Workers : wsrc[w] # p
        /\ Len(delays[p]) = calls[p] - 1
C6_Step ==
    \A p \in Files : lastErr'[p] = "fatal" =>
        /\ ~Retrying(p)'
        /\ delays'[p] = delays[p]
        /\ lastErr[p] = "fatal" => calls'[p] = calls[p]
\* C6: a store call that fails with a non-recoverable error puts the item in
\* the rejection log after that one attempt; no retry timer is started and the
\* item is never enqueued or attempted again.
C6_FatalShortCircuit == []C6_Inv /\ [][C6_Step]_vars

C6_Witness ==
    \E p, q \in Files :
        /\ lastErr[p] = "fatal" /\ calls[p] = 1
        /\ lastErr[q] = "fatal" /\ calls[q] > 1

\* C7: an item that fails recoverably k times (0 <= k < 10) and then succeeds
\* had k+1 store calls and k backoff delays, is Succeeded, is not in the
\* rejection log, and is in the written cache.
C7_FailThenSucceed ==
    \A p \in Files : loc[p] = "uploaded" =>
        /\ attempts[p] \in 0..9
        /\ calls[p] = attempts[p] + 1
        /\ Len(delays[p]) = attempts[p]
        /\ lastErr[p] = "ok"
        /\ p \notin Range(rejected)
        /\ written => (p \in DOMAIN cacheFile /\ cacheFile[p] = tree[p])

C7_Witness ==
    /\ written
    /\ \E p, q \in Files :
          /\ loc[p] = "uploaded" /\ attempts[p] = 9
          /\ loc[q] = "uploaded" /\ attempts[q] = 0

\* C8: the channel is closed and cache finalization starts only after every
\* seeded item is terminal; an item waiting out its backoff keeps the run
\* before the barrier even when nothing is being sent.
C8_Barrier ==
    /\ (closed \/ (UploadPhaseRan /\ pc \in {"waitWorkers", "cache", "done"}))
          => \A p \in diff : Terminal(p)
    /\ (\E p \in Files : Retrying(p)) => (~closed /\ pc \in {"seed", "waitUploads"})
    /\ written => \A p \in diff : loc[p] \notin {"seed", "worker", "timer", "send"}

C8_Witness ==
    /\ pc = "waitUploads"
    /\ ~closed
    /\ \E p \in diff : loc[p] = "timer"
    /\ \A w \in Workers : wpc[w] # "busy"
    /\ ChannelIdle

\* parts of C9
RunEnded ==
    /\ pc = "done"
    /\ closed
    /\ \A p \in diff : Terminal(p)
    /\ \A w \in Workers : w <= WorkersCount => wpc[w] = "exited"
\* C9: with at least one worker and a non-empty diff, under fair scheduling
\* every seeded item becomes terminal, the channel is closed, every worker
\* exits and main reaches its end.
C9_Termination ==
    (WorkersCount >= 1 /\ doUpload /\ Diff(tree, cacheFile) # {}) => <>RunEnded

C9_Witness ==
    /\ RunEnded
    /\ WorkersCount = MaxWorkers
    /\ Cardinality(diff) = MaxFiles
    /\ \E p \in diff : loc[p] = "failed" /\ calls[p] = 10

\* C10: a retry does not occupy a worker: an item waiting for its re-enqueue
\* is held by no worker, and every worker not holding an item is back at the
\* channel; with one worker another item completes while the first one waits.
C10_RetryFreesWorker ==
    /\ \A p \in Files : Retrying(p) => \A w \in Workers : wsrc[w] # p
    /\ \A w \in Workers :
          /\ wpc[w] = "busy" => (wsrc[w] \in diff /\ loc[wsrc[w]] = "worker")
          /\ (w <= WorkersCount /\ UploadPhaseRan /\ wpc[w] # "busy")
                => (wsrc[w] = 0 /\ wpc[w] \in {"idle", "exited"})

C10_Witness ==
    /\ WorkersCount = 1
    /\ \E p, q \in diff :
          /\ p # q
          /\ Retrying(p) /\ attempts[p] = 1
          /\ loc[q] = "uploaded"

\* parts of C11
\* the terminal state the store outcomes of p dictate
OwnOutcome(p) ==
    /\ calls[p] >= 1
    /\ loc[p] = "uploaded" <=> lastErr[p] = "ok"
    /\ loc[p] = "failed" <=> \/ lastErr[p] = "fatal"
                             \/ lastErr[p] = "recoverable" /\ attempts[p] = maxTries
C11_Inv ==
    /\ \A w \in Workers : wpc[w] = "exited" => closed
    /\ closed => \A p \in diff : Terminal(p)
    /\ ~dryRun => \A p \in Files : Terminal(p) => OwnOutcome(p)
    /\ (UploadPhaseRan /\ ~dryRun /\ pc \in {"waitWorkers", "cache", "done"})
          => \A p \in diff : Terminal(p) /\ OwnOutcome(p)
C11_Step ==
    \A p \in Files :
        calls'[p] # calls[p] =>
            /\ \A q \in Files \ {p} :
                  /\ loc'[q] = loc[q]
                  /\ attempts'[q] = attempts[q]
                  /\ calls'[q] = calls[q]
                  /\ lastErr'[q] = lastErr[q]
                  /\ delays'[q] = delays[q]
            /\ Range(rejected') \ Range(rejected) \subseteq {p}
            /\ \A w \in Workers :
                  \/ wpc'[w] = wpc[w] /\ wsrc'[w] = wsrc[w]
                  \/ wsrc[w] = p /\ wpc'[w] = "idle"
            /\ closed' = closed /\ wgWorkers' = wgWorkers

\* C11: a store failure of one item (recoverable, fatal, or the exhaustion
\* of its retries) stops no worker and changes nothing of any other item: a
\* worker only leaves its loop on the closed channel, the channel is only
\* closed when every item is settled, a store call for one item leaves the
\* state, counters and outcome of every other item alone, and at the end of
\* the upload phase every item of the diff was attempted and sits in the
\* terminal state its own store outcomes dictate.
C11_Contained == []C11_Inv /\ [][C11_Step]_vars

\* one item exhausted its retries while another one was uploaded at once
C11_Witness ==
    /\ pc = "done"
    /\ \E p, q \in diff :
          /\ loc[p] = "failed" /\ calls[p] = maxTries /\ lastErr[p] = "recoverable"
          /\ loc[q] = "uploaded" /\ calls[q] = 1

\* C12: with dryRun set no store call is ever made, no attempt counter is
\* incremented, no retry is scheduled, the rejection log stays empty, the
\* cache file is neither written nor changed, every item handed to a worker
\* goes straight to the done state, and once the upload phase is over every
\* seeded item is in that state.
C12_DryRun ==
    dryRun =>
        /\ \A p \in Files :
              /\ calls[p] = 0
              /\ attempts[p] = 0
              /\ delays[p] = <<>>
              /\ loc[p] \in {"absent", "seed", "worker", "pretended"}
        /\ rejected = <<>>
        /\ ~written
        /\ pc # "start" => cacheFile = old
        /\ (UploadPhaseRan /\ pc \in {"waitWorkers", "cache", "done"})
              => \A p \in diff : loc[p] = "pretended"

\* a dry run over two changed files that reached the end past the cache step
C12_Witness ==
    /\ dryRun /\ doUpload /\ doCache
    /\ pc = "done"
    /\ Cardinality(diff) = 2
    /\ \A p \in diff : loc[p] = "pretended"
    /\ cacheFile = old /\ old # current

\* C13: when the source tree holds nothing that differs from the old cache,
\* the run is over as soon as the lists are computed, with the success
\* code, no worker started, no store call made, nothing rejected and the
\* cache file neither written nor changed.
C13_EmptyDiff ==
    (pc # "start" /\ Diff(tree, old) = {}) =>
        /\ diff = {}
        /\ pc = "done"
        /\ exitCode = Success
        /\ \A w \in Workers : wpc[w] = "none"
        /\ wgWorkers = 0 /\ wgUploads = 0 /\ ~closed
        /\ \A p \in Files : calls[p] = 0 /\ loc[p] = "absent"
        /\ rejected = <<>>
        /\ ~written
        /\ cacheFile = old

\* a run over a non-empty, fully cached tree with uploading and caching on
C13_Witness ==
    /\ pc = "done"
    /\ DOMAIN tree # {}
    /\ Diff(tree, old) = {}
    /\ doUpload /\ doCache /\ ~dryRun
    /\ WorkersCount >= 1

\* C14: whatever the tree and the cache file hold, the diff computed by
\* filesLists holds only paths of the tree; it holds every path of the tree
\* that the cache lacks and every path whose cached hash differs from the
\* tree's; it holds no path cached with the same hash and no path that only
\* the cache knows.
C14_DiffCorrect ==
    pc = "listed" =>
        /\ diff \subseteq DOMAIN tree
        /\ \A p \in DOMAIN tree \ DOMAIN cacheFile : p \in diff
        /\ \A p \in DOMAIN tree \cap DOMAIN cacheFile :
              (p \in diff) <=> (tree[p] # cacheFile[p])
        /\ \A p \in DOMAIN cacheFile \ DOMAIN tree : p \notin diff

\* one path changed its hash, another one is only known to the cache
C14_Witness ==
    /\ pc = "listed"
    /\ \E p, q \in Files :
          /\ p \in DOMAIN tree /\ p \in DOMAIN cacheFile /\ tree[p] # cacheFile[p]
          /\ p \in diff
          /\ q \in DOMAIN cacheFile /\ q \notin DOMAIN tree /\ q \notin diff

\* C15: when the run before ended with an empty rejection log and wrote its
\* cache, and the tree is the same, the cache file matches the tree: the
\* diff of this run is empty, it ends at once with the success code, starts
\* no worker and makes no store call.
C15_Idempotent ==
    prevRun = "clean" =>
        /\ Diff(tree, cacheFile) = {}
        /\ pc \in {"start", "done"}
        /\ pc = "done" => diff = {} /\ exitCode = Success /\ ~written
        /\ \A p \in Files : calls[p] = 0 /\ loc[p] = "absent"
        /\ \A w \in Workers : wpc[w] = "none"

\* the second run over a non-empty tree, ended, after a first run that
\* uploaded both files
C15_Witness ==
    /\ prevRun = "clean"
    /\ pc = "done"
    /\ doUpload /\ doCache /\ ~dryRun /\ WorkersCount >= 1
    /\ Cardinality(DOMAIN tree) = 2
    /\ cacheFile = tree

\* parts of C16
\* the paths for which main has created and sent a work item so far
Created == {WorkList[i] : i \in 1..(seedIdx - 1)}
\* the number of places that hold the item of p
Holders(p) ==
    Cardinality({w \in Workers : wsrc[w] = p}) + (IF Retrying(p) THEN 1 ELSE 0)

\* C16: main creates one work item for each path of the diff and for no
\* other path: the list it ranges over names every diff path once, the
\* items sent so far are the first seedIdx-1 of them, all of them once
\* seeding is over, each item is held by at most one worker or retry
\* goroutine at a time, and a path outside the diff (in particular one
\* whose hash equals the cached one) never gets an item or a store call.
C16_OneItemPerDiffPath ==
    /\ Len(WorkList) = Cardinality(diff)
    /\ Range(WorkList) = diff
    /\ Created = {p \in Files : loc[p] \notin {"absent", "seed"}}
    /\ (UploadPhaseRan /\ pc \notin {"start", "seed"}) => Created = diff
    /\ \A p \in Files :
          /\ Holders(p) <= 1
          /\ Holders(p) = 1 <=> loc[p] \in {"worker", "timer", "send"}
    /\ \A p \in Files \ diff :
          loc[p] = "absent" /\ calls[p] = 0 /\ attempts[p] = 0 /\ Holders(p) = 0
    /\ pc # "start" => \A p \in Files : Unchanged(p) => p \notin diff /\ calls[p] = 0

\* a finished run over a changed and an unchanged file: only the changed
\* one was stored
C16_Witness ==
    /\ pc = "done"
    /\ ~dryRun
    /\ \E p, q \in DOMAIN tree :
          /\ Unchanged(p) /\ calls[p] = 0 /\ loc[p] = "absent"
          /\ q \in diff /\ calls[q] = 1 /\ loc[q] = "uploaded"

\* parts of C17
\* p's item has been pulled from the channel for the first time
Pulled(p) == loc[p] \notin {"absent", "seed"}
C17_Inv ==
    \A p, q \in diff : (p < q /\ Pulled(q)) => Pulled(p)
C17_Step ==
    /\ \A q \in diff :
          (~Pulled(q) /\ Pulled(q)') =>
              /\ \A p \in diff : p < q => Pulled(p)
              /\ \A r \in diff \ {q} : Pulled(r)' = Pulled(r)
              /\ \E w \in Workers : wpc[w] = "idle" /\ wsrc'[w] = q
    /\ \A q \in diff : Pulled(q) => Pulled(q)'

\* C17: the first pull of each item from the channel follows the
\* lexicographic order of the paths: an item is pulled for the first time
\* only when every smaller path of the diff was pulled before, one item
\* per step, by an idle worker, for any number of workers and whatever the
\* earlier items are doing (being stored, waiting for a retry, settled).
C17_SeedOrder == []C17_Inv /\ [][C17_Step]_vars

\* with two workers, the second path is pulled for the first time while the
\* first one waits for a retry
C17_Witness ==
    /\ WorkersCount = 2
    /\ \E p, q \in diff :
          /\ p < q
          /\ Retrying(p) /\ attempts[p] >= 1
          /\ loc[q] = "worker" /\ calls[q] = 0

\* parts of C20
\* the run got to the Dump call of the Cache step
DumpAttempted == pc = "done" /\ diff # {} /\ doCache /\ ~dryRun

\* C20: a failed write of the final cache has an outcome of its own: the
\* CachingFailure code differs from the success code and from every other
\* failure code, a run whose Dump call did not succeed ends with that code,
\* the code is given for no other reason, and "Done updating cache" is only
\* said with the success code and the final set in the cache file.
C20_CachingFailure ==
    /\ CachingFailure \notin {Success, SetupFailed, S3AuthError, CmdLineOptionError}
    /\ exitCode = CachingFailure => DumpAttempted /\ ~written
    /\ (DumpAttempted /\ ~written) => exitCode = CachingFailure
    /\ written => DumpAttempted /\ exitCode = Success /\ cacheFile = current

\* a run that uploaded one file, rejected the other and then failed to dump
C20_Witness ==
    /\ pc = "done"
    /\ exitCode = CachingFailure
    /\ ~written
    /\ \E p, q \in diff : loc[p] = "uploaded" /\ loc[q] = "failed"

\* parts of C18
\* how often x is in the log
InLog(x) == Cardinality({i \in DOMAIN rejected : rejected[i] = x})
\* the add calls with x that have not written yet
Pending(x) ==
    Cardinality({w \in Workers : slPc[w] \in {"lock", "read", "write"} /\ slItem[w] = x})
\* no caller is inside add
AllReturned == \A w \in Workers : slPc[w] = "idle"
C18_Inv ==
    /\ \A x \in Files : InLog(x) + Pending(x) = slAdded[x]
    /\ AllReturned => \A x \in Files : InLog(x) = slAdded[x]
    /\ \A w, v \in Workers :
          (slPc[w] \in {"read", "write", "unlock"} /\ slPc[v] \in {"read", "write", "unlock"})
              => w = v
C18_Step ==
    /\ Len(rejected') >= Len(rejected)
    /\ SubSeq(rejected', 1, Len(rejected)) = rejected

\* C18: for every interleaving of the add calls of different workers the
\* log holds each item exactly as often as add was called with it once the
\* calls have returned (no append is lost, none is duplicated), at most one
\* caller is between Lock and Unlock, and every step leaves the entries the
\* log already has in place: it only grows.
C18_Serialized == []C18_Inv /\ [][C18_Step]_vars

\* one caller is inside append while another one waits for the lock, after
\* an earlier add has gone through
C18_Witness ==
    /\ Len(rejected) >= 1
    /\ \E w, v \in Workers :
          /\ w # v
          /\ slPc[w] = "write" /\ slMutex = w
          /\ slPc[v] = "lock"

\* parts of C19
Resolved == hResult.rule # -1
\* the rules whose pattern matches the path
Matching(path) == {i \in 1..Len(customHeadersDef) : Match(customHeadersDef[i], path)}
\* what the table as declared yields for some paths on which rules overlap
Expected(path) ==
    CASE path = <<"index", ".html">> -> Gzip("max-age=1800")
      [] path = <<"articole/", "index", ".html">> -> Gzip("max-age=1800")
      [] path = <<"index", ".html", ".jpg">> -> Gzip("max-age=1800")
      [] path = <<"articole/", "a", ".html">> -> Gzip("max-age=3600")
      [] path = <<"a", ".html">> -> Gzip("max-age=3600")
      [] path = <<"images/", "articole/", ".jpg">> -> Plain("max-age=31536000")
      [] path = <<"a", ".css">> -> Gzip("max-age=31536000")
      [] path = <<"a", ".txt">> -> NoHeaders
      [] path = <<"images/", "a", "jpg">> -> NoHeaders
      [] OTHER -> hResult.hdr

\* C19: for every path the resolved headers are those of the
\* lowest-indexed rule of customHeadersDef whose pattern matches it, also
\* when later rules match as well; a path that no rule matches gets the empty
\* header set and no compression; compression is on exactly when the
\* resolved Content-Encoding is gzip; the result is determined by the path
\* and the table alone.
C19_FirstMatch ==
    Resolved =>
        /\ IF Matching(hPath) = {}
           THEN hResult = [rule |-> 0, hdr |-> NoHeaders, gzip |-> FALSE]
           ELSE /\ hResult.rule = Min(Matching(hPath))
                /\ hResult.hdr = customHeadersDef[Min(Matching(hPath))].hdr
        /\ hResult.gzip <=> hResult.hdr.ContentEncoding = "gzip"
        /\ hResult.hdr = Expected(hPath)

\* index.html under articole/ matches the first three rules and got the
\* headers of the first
C19_Witness ==
    /\ Resolved
    /\ hPath = <<"articole/", "index", ".html">>
    /\ Matching(hPath) = {1, 2, 3}
    /\ hResult.rule = 1
    /\ hResult.hdr.CacheControl = "max-age=1800"

\* C21: a cache-file path that does not exist passes flag validation; with
\* the other flags good the run goes on to filesLists, where the old set
\* comes out empty and the diff holds every path of the current tree.
C21_MissingCache ==
    /\ validateCmdLineFlag("Cache file", "notexist") = "nil"
    /\ (CacheStat = "notexist" /\ BucketName # "" /\ SourceStat = "ok" /\ pc # "validate")
          => pc \in {"start", "listed"} /\ exitCode = Success
    /\ (CacheStat = "notexist" /\ pc = "listed")
          => old = <<>> /\ current = tree /\ diff = DOMAIN tree

\* a first run over two files with no cache file yet
C21_Witness ==
    /\ pc = "listed"
    /\ CacheStat = "notexist"
    /\ Cardinality(DOMAIN tree) = 2
    /\ diff = DOMAIN tree

\* C22: a name lookup failure and a request timeout are classified as
\* recoverable, access denied and bucket not found as fatal; every error
\* gets exactly one of the two classes, and the class is the same whatever
\* the attempt count of the item is.
C22_Classification ==
    clResult # "none" =>
        /\ clResult \in {"recoverable", "fatal"}
        /\ clErr \in {NewNetworkError, NewRecoverableError} => clResult = "recoverable"
        /\ clErr \in {NewAccessDeniedError, NewBucketNotFoundError, MadeUpError}
              => clResult = "fatal"
        /\ (clResult = "recoverable") <=> isRecoverable(clErr)
        /\ (clResult = "fatal") <=> ~isRecoverable(clErr)

\* a network error classified for an item with attempts left
C22_Witness ==
    /\ clErr = NewNetworkError
    /\ clAttempts = 1
    /\ clResult = "recoverable"

\* parts of C23
\* init() has finished setting up opts
ConfigReady == cfPc = "ready"
\* the value a config file gives for workers_count: that of the file in
\* effect when it sets one, else that of the default file when it sets one
FileWorkers ==
    IF cfFlags.cfgfile /\ cfOtherFile.status = "ok" /\ cfOtherFile.WorkersCount # 0
    THEN cfOtherFile.WorkersCount
    ELSE IF cfDefaultFile.status = "ok" THEN cfDefaultFile.WorkersCount ELSE 0

\* C23 (as stated): once init() is done, for every command line and every
\* pair of config files, the effective worker count is the value of the
\* -workers flag when the flag was given, otherwise the value a config
\* file sets, otherwise the built-in default; also when -cfgfile names
\* another config file.
C23_Precedence ==
    (ConfigReady /\ ~cfFlags.save) =>
        cfOpts.WorkersCount =
            IF cfFlags.workers # 0 THEN cfFlags.workers
            ELSE IF FileWorkers # 0 THEN FileWorkers
            ELSE DefaultOpts.WorkersCount

\* the same precedence holds as long as -cfgfile is not given
C23_PrecedenceDefaultFile ==
    (ConfigReady /\ ~cfFlags.save /\ ~cfFlags.cfgfile) =>
        cfOpts.WorkersCount =
            IF cfFlags.workers # 0 THEN cfFlags.workers
            ELSE IF FileWorkers # 0 THEN FileWorkers
            ELSE DefaultOpts.WorkersCount

\* -workers 3 -cfgfile other, with other setting workers_count to 2: the
\* file's value is in effect
C23_FileBeatsFlag ==
    /\ ConfigReady
    /\ cfFlags.workers = 3 /\ cfFlags.cfgfile /\ ~cfFlags.save
    /\ cfOtherFile.status = "ok" /\ cfOtherFile.WorkersCount = 2
    /\ cfOpts.WorkersCount = 2

\* parts of C24
\* the states of a work item: Pending (created, or sent again, and not yet
\* pulled), InFlight, Retrying (waiting for its timer), Succeeded, Rejected
ItemState(l) ==
    CASE l \in {"seed", "send"} -> "Pending"
      [] l = "worker" -> "InFlight"
      [] l = "timer" -> "Retrying"
      [] l \in {"uploaded", "pretended"} -> "Succeeded"
      [] l = "failed" -> "Rejected"
      [] OTHER -> "None"
ItemMoves ==
    {<<"None", "Pending">>, <<"Pending", "InFlight">>, <<"InFlight", "Succeeded">>,
     <<"InFlight", "Rejected">>, <<"InFlight", "Retrying">>, <<"Retrying", "Pending">>}
C24_Inv ==
    \A p \in Files :
        /\ (loc[p] = "failed") <=> (p \in Range(rejected))
        /\ InLog(p) <= 1
        /\ loc[p] \in {"uploaded", "pretended"} => lastErr[p] \in {"ok", "none"}
        /\ Terminal(p) => \A w \in Workers : wsrc[w] # p
C24_Step ==
    \A p \in Files :
        /\ \/ ItemState(loc'[p]) = ItemState(loc[p])
           \/ <<ItemState(loc[p]), ItemState(loc'[p])>> \in ItemMoves
        /\ calls'[p] # calls[p] => ItemState(loc[p]) = "InFlight"
        /\ Terminal(p) =>
              /\ loc'[p] = loc[p]
              /\ calls'[p] = calls[p]
              /\ attempts'[p] = attempts[p]
              /\ \A w \in Workers : wsrc'[w] # p

\* C24: every step moves a work item along Pending -> InFlight ->
\* Succeeded, InFlight -> Rejected or InFlight -> Retrying -> Pending, or
\* leaves it where it is; the store operation is only called for an item
\* in flight; an item that is Succeeded or Rejected stays so and is never
\* sent, pulled or stored again; an item is in the rejection log, once,
\* exactly when it is Rejected, so none is both Succeeded and Rejected.
C24_ItemStates == []C24_Inv /\ [][C24_Step]_vars

\* at the end of a run one item went through a retry to Succeeded and the
\* other one was Rejected
C24_Witness ==
    /\ pc = "done"
    /\ \E p, q \in diff :
          /\ loc[p] = "uploaded" /\ calls[p] = 2
          /\ loc[q] = "failed" /\ rejected = <<q>>

\* parts of C25
\* the workers that are between pulling an item and the outcome of fn(src)
InProgress == {w \in Workers : wpc[w] = "busy"}

\* C25: at any moment at most WorkersCount store calls are in progress,
\* for any size of the diff and any number of items waiting to be retried:
\* only the WorkersCount goroutines started by main call the store
\* operation, each for the one item it holds, and an item waiting for its
\* retry is held by no worker.
C25_BoundedPool ==
    /\ Cardinality(InProgress) <= WorkersCount
    /\ Cardinality({w \in Workers : wpc[w] # "none"}) <= WorkersCount
    /\ Cardinality({p \in Files : loc[p] = "worker"}) = Cardinality(InProgress)
    /\ \A w \in InProgress : wsrc[w] \in diff /\ loc[wsrc[w]] = "worker"
    /\ \A w, v \in InProgress : wsrc[w] = wsrc[v] => w = v

\* one worker, busy with one item, while the retry of another item waits
\* to hand it over
C25_Witness ==
    /\ WorkersCount = 1
    /\ ~dryRun
    /\ Cardinality(InProgress) = 1
    /\ \E q \in diff : loc[q] = "send" /\ attempts[q] >= 1

\* parts of C26
\* the compressor of this call fails
CompressionFailure == spIn.u = "set" /\ spIn.gzip /\ spIn.open = "ok" /\ spIn.copy # "ok"
\* what the pipeline does with an item whose store call failed with err
\* after a attempts
AsForStoreError(a, err) == IF ShouldReject(a + 1, err) THEN "rejected" ELSE "retry"
C26_Inv ==
    /\ spPc \in {"open", "compress", "upload", "returned", "handled"}
    /\ (CompressionFailure /\ spPc \in {"returned", "handled"})
          => /\ spErr # "nil"
             /\ spErr \in {CompressionError, GzipCloseError, spIn.store}
    /\ (CompressionFailure /\ spPc = "handled")
          => /\ spNext \in {"rejected", "retry"}
             /\ spNext = AsForStoreError(spAttempts - 1, spErr)
             /\ \A e \in Errors :
                   ErrorKind(e) = ErrorKind(spErr)
                       => spNext = AsForStoreError(spAttempts - 1, e)
C26_Step ==
    (CompressionFailure /\ spPc = "returned") =>
        /\ spAttempts' = spAttempts + 1
        /\ spPc' = "handled"

\* C26: when the compressor of a gzip-flagged file fails, in io.Copy or in
\* gz.Close, the upload function runs to its end and returns an error, that
\* of the compressor or one the store gave first (there is no panic and no
\* nil result); the worker then counts one attempt and rejects
\* or retries the item by the same rule, with the same result, as for a
\* store error of the same class.
C26_CompressionFailure == []C26_Inv /\ [][C26_Step]_vars

\* a failed copy was returned as an error and the item, on its third
\* attempt, was rejected
C26_Witness ==
    /\ CompressionFailure
    /\ spIn.copy = "copyErr"
    /\ spPc = "handled"
    /\ spErr = CompressionError
    /\ spAttempts = 3
    /\ spNext = "rejected"

\* C27 as stated: after any interleaving of n Upload calls, all returned,
\* UploadCount is n and exactly n uploads are recorded. Violated by a call
\* whose body cannot be read: it is counted and not recorded.
MockQuiet == \A w \in Workers : mkPc[w] = "none"
C27_CountedAndRecorded ==
    MockQuiet => mkCount = mkStarted /\ Len(mkUploads) = mkStarted

\* C27, what the mutex does give: every call is counted, and every call that
\* read its body is recorded once
C27_CountedOnce ==
    MockQuiet => mkCount = mkStarted /\ Len(mkUploads) = mkStarted - mkReadFails

\* C27: two goroutines have called Upload concurrently and all calls returned,
\* one of them with the read error
C27_Witness ==
    /\ MockQuiet
    /\ mkStarted = MaxCalls
    /\ \A w \in Workers : mkRet[w] # "none"
    /\ mkReadFails = 1
    /\ mkCount = MaxCalls
    /\ Len(mkUploads) = MaxCalls - 1

\* C28: with ErrorFunc = ErrorNTimes(n, err), the calls that reach the
\* injector are numbered in the order they acquire it; the first n of them
\* are recorded and return with err, every later one with no error,
\* whatever their keys
Injected(w) == mkPc[w] \in {"record", "return"}
C28_ErrorNTimes ==
    /\ \A i \in 1..Len(mkUploads) :
           mkUploads[i].error = (IF i <= injN THEN InjectedError ELSE "nil")
    /\ \A w \in Workers :
           /\ Injected(w) => mkErr[w] = (IF injCount <= injN THEN InjectedError ELSE "nil")
           /\ mkPc[w] = "none" /\ mkRet[w] \notin {"none", ReadError} =>
                  \E i \in 1..Len(mkUploads) :
                      /\ mkUploads[i].by = w
                      /\ mkUploads[i].error = mkRet[w]
                      /\ \A j \in (i + 1)..Len(mkUploads) : mkUploads[j].by # w
    /\ injCount = Len(mkUploads) + Cardinality({w \in Workers : mkPc[w] = "record"})

\* C28: ErrorNTimes(2, err), three calls with two different keys from two
\* goroutines: the first two failed, the third succeeded
C28_Witness ==
    /\ injN = 2
    /\ MockQuiet
    /\ Len(mkUploads) = 3
    /\ mkUploads[1].error = InjectedError
    /\ mkUploads[2].error = InjectedError
    /\ mkUploads[3].error = "nil"
    /\ mkUploads[1].key # mkUploads[2].key
    /\ mkUploads[1].by # mkUploads[3].by
    /\ mkRet[mkUploads[3].by] = "nil"

\* C29: once close(uploads) has run, the seeding loop has ended, no worker
\* holds an item it could hand to a retry goroutine, no retry timer is
\* pending and no retry goroutine is at its send: nothing can send on the
\* closed channel
C29_NoSendOnClosed ==
    closed =>
        /\ pc \notin {"start", "seed", "waitUploads"}
        /\ seedIdx > Len(WorkList)
        /\ \A w \in Workers : wpc[w] # "busy"
        /\ \A p \in Files : ~Retrying(p) /\ loc[p] # "worker"

\* C29: the channel is closed after an item went through a retry goroutine
\* twice and another item was rejected
C29_Witness ==
    /\ closed
    /\ \E p \in Files : Len(delays[p]) >= 2 /\ loc[p] = "uploaded"
    /\ \E p \in Files : loc[p] = "failed"

\* C30 as stated: in the upload phase, for every worker count W >= 0 and
\* every non-empty diff, while some item of the diff is not terminal some
\* step of main(), of a worker or of a retry goroutine can be taken
UploadPhase == pc \in {"seed", "waitUploads"}
SomeItemOpen == \E p \in diff : ~Terminal(p)
C30_DeadlockFree ==
    UploadPhase /\ SomeItemOpen => ENABLED Next

\* C30, with at least one worker: the same, and it holds
C30_DeadlockFreeWithWorkers ==
    WorkersCount >= 1 /\ UploadPhase /\ SomeItemOpen => ENABLED Next

\* C30: -workers 0 and a changed file: main() is at its first send on the
\* unbuffered channel, there is no worker to receive and no retry goroutine
C30_NoWorkerToReceive ==
    /\ WorkersCount = 0
    /\ doUpload
    /\ pc = "seed"
    /\ seedIdx = 1
    /\ SomeItemOpen
    /\ \A p \in Files : ~Retrying(p)
    /\ ~ENABLED Next

\* C31: from wgUploads.Add(len(diff)) to the end of the upload phase the
\* outstanding-work counter is the number of items of the diff that are not
\* terminal, and it is never negative; a step changes it only by taking one
\* item to a terminal state (uploaded, failed, pretended) and decrementing
\* once; a step that hands an item to a retry goroutine leaves it alone
Seeding == pc \in {"seed", "waitUploads", "waitWorkers"}
OpenItems == {p \in diff : ~Terminal(p)}
C31_Inv ==
    /\ wgUploads >= 0
    /\ Seeding => wgUploads = Cardinality(OpenItems)
C31_Step ==
    /\ Seeding /\ wgUploads' # wgUploads =>
          /\ wgUploads' = wgUploads - 1
          /\ \E p \in diff :
                /\ ~Terminal(p)
                /\ loc'[p] \in {"uploaded", "failed", "pretended"}
                /\ \A q \in Files \ {p} : loc'[q] = loc[q]
    /\ \A p \in Files :
          loc[p] = "worker" /\ loc'[p] = "timer" => wgUploads' = wgUploads
    /\ \A p \in Files :
          Terminal(p) => loc'[p] = loc[p]
C31_OutstandingWork == []C31_Inv /\ [][C31_Step]_vars

\* C31: one item was retried and then uploaded, the other was rejected, and
\* the counter is back at zero
C31_Witness ==
    /\ Seeding
    /\ Cardinality(diff) = 2
    /\ wgUploads = 0
    /\ \E p \in diff : loc[p] = "uploaded" /\ attempts[p] >= 1
    /\ \E p \in diff : loc[p] = "failed"

\* C32: in the upload phase every item of the diff that is not terminal is
\* in exactly one place: still to be sent by the seeding loop, held by one
\* worker, in one retry timer, or at the send of one retry goroutine; a
\* terminal item is in none. A step changes the attempt counter of an item
\* only through the one worker that holds it, by one.
ToBeSeeded(p) == \E i \in seedIdx..Len(WorkList) : WorkList[i] = p
HeldBy(p) == {w \in Workers : wpc[w] = "busy" /\ wsrc[w] = p}
Places(p) ==
    (IF ToBeSeeded(p) THEN 1 ELSE 0) + Cardinality(HeldBy(p))
        + (IF loc[p] = "timer" THEN 1 ELSE 0) + (IF loc[p] = "send" THEN 1 ELSE 0)
C32_Inv ==
    /\ Seeding => \A p \in diff : Places(p) = (IF Terminal(p) THEN 0 ELSE 1)
    /\ \A w \in Workers : wpc[w] = "busy" => wsrc[w] \in diff /\ loc[wsrc[w]] = "worker"
    /\ \A w \in Workers : wpc[w] # "busy" => wsrc[w] = 0
C32_Step ==
    \A p \in Files :
        attempts'[p] # attempts[p] =>
            /\ attempts'[p] = attempts[p] + 1
            /\ Cardinality(HeldBy(p)) = 1
            /\ \A q \in Files \ {p} : attempts'[q] = attempts[q]
C32_SingleOwner == []C32_Inv /\ [][C32_Step]_vars

\* C32: two workers hold the two items of the diff, one of them after a
\* retry, and both are busy at once
C32_Witness ==
    /\ Cardinality(diff) = 2
    /\ \A w \in Workers : wpc[w] = "busy"
    /\ \E p \in diff : attempts[p] >= 1 /\ Cardinality(HeldBy(p)) = 1
    /\ \A p \in diff : loc[p] = "worker"

\* C33: in the state where cache finalization reads rejected.list, every
\* worker that was started has exited and none is inside the list; the
\* list holds the path of each item that ended failed exactly once and no
\* other path, in particular none of an uploaded item
ReadsLog == pc = "cache" /\ doCache /\ ~dryRun
C33_LogAtFinalization ==
    ReadsLog =>
        /\ wgWorkers = 0
        /\ \A w \in Workers :
              wpc[w] = (IF UploadPhaseRan /\ w <= WorkersCount THEN "exited" ELSE "none")
        /\ \A p \in Files : InLog(p) = (IF loc[p] = "failed" THEN 1 ELSE 0)
        /\ \A p \in Files : loc[p] = "uploaded" => p \notin Range(rejected)
        /\ \A p \in diff : UploadPhaseRan => loc[p] \in {"uploaded", "failed"}

\* C33: finalization is about to read the list after two workers exited;
\* one item was rejected after a retry, the other uploaded
C33_Witness ==
    /\ ReadsLog
    /\ WorkersCount = 2
    /\ \A w \in Workers : wpc[w] = "exited"
    /\ \E p \in diff : loc[p] = "failed" /\ attempts[p] >= 2 /\ rejected = <<p>>
    /\ \E p \in diff : loc[p] = "uploaded"

Gate == diff # {} /\ doCache /\ ~dryRun
DumpCalled == written \/ exitCode = CachingFailure
C35_Inv ==
    /\ pc = "done" => (DumpCalled <=> Gate)
    /\ pc # "done" => ~DumpCalled
    /\ (pc # "start" /\ ~Gate) => cacheFile = old /\ ~written
    /\ (pc # "start" /\ ~written) => cacheFile = old
C35_Step ==
    (cacheFile' # cacheFile \/ written' # written) =>
        /\ pc = "cache" /\ pc' = "done"
        /\ Gate
        /\ written'
        /\ cacheFile' = FinalCache(current, rejected)
C35_CacheWriteGating == []C35_Inv /\ [][C35_Step]_vars

\* C35: a run with caching switched off has ended after one item was
\* uploaded and one rejected, and the cache file is the old one
C35_Witness ==
    /\ pc = "done"
    /\ ~doCache
    /\ ~dryRun
    /\ \E p \in diff : loc[p] = "uploaded"
    /\ \E p \in diff : loc[p] = "failed"
    /\ cacheFile = old
    /\ cacheFile # FinalCache(current, rejected)
    /\ ~written

\* C36 as stated: for a gzip-flagged file, once the upload function has
\* returned, the compressor goroutine is not blocked in a write to the
\* pipe, whatever the store did. Violated by a store that answers with an
\* error while part of the body is unread: nothing reads or closes the read
\* end, so the write never returns.
C36_CompressorEnds ==
    gzFn = "returned" => gzPc # "blocked"

\* C36, for a store that reads the body to its end: the compressor has
\* returned by the time the upload function returns
C36_EndsWhenBodyRead ==
    (gzFn = "returned" /\ gzIn.store # "errEarly") => gzPc = "done"

\* C36: the store gave up with writes outstanding, the function has
\* returned and the compressor is in pw.Write with no step left to take
C36_CompressorStuck ==
    /\ gzFn = "returned"
    /\ gzErr = StoreError
    /\ gzIn.store = "errEarly"
    /\ gzPc = "blocked"
    /\ gzPending
    /\ gzLeft >= 1
    /\ gzEnd = "open"
    /\ ~ENABLED NextPipe

\* C37: when the file cannot be opened, or no uploader is given outside the
\* test environment, the upload function returns an error and never gets to
\* the store call; the worker then counts one attempt and rejects or
\* retries the item by the rule, and with the result, it has for a store
\* error of the same class. With no uploader in the test environment the
\* function returns nil without opening the file or calling the store.
NoUploader == spIn.u = "nil"
FailsBeforeStore == (NoUploader /\ appEnv # testEnv) \/ (~NoUploader /\ spIn.open = "fail")
NoOp == NoUploader /\ appEnv = testEnv
C37_Inv ==
    /\ (FailsBeforeStore \/ NoOp) => spPc \in {"open", "returned", "handled"} /\ spPipe = "none"
    /\ (FailsBeforeStore /\ spPc \in {"returned", "handled"}) =>
          spErr = (IF NoUploader THEN NotInitializedError ELSE OpenError)
    /\ (FailsBeforeStore /\ spPc = "handled") =>
          /\ spNext \in {"rejected", "retry"}
          /\ spNext = AsForStoreError(spAttempts - 1, spErr)
          /\ \A e \in Errors :
                ErrorKind(e) = ErrorKind(spErr) => spNext = AsForStoreError(spAttempts - 1, e)
    /\ (NoOp /\ spPc \in {"returned", "handled"}) => spErr = "nil"
    /\ (NoOp /\ spPc = "handled") => spNext = "uploaded"
C37_Step ==
    /\ (FailsBeforeStore /\ spPc = "returned") =>
          spAttempts' = spAttempts + 1 /\ spPc' = "handled"
    /\ (NoOp /\ spPc = "returned") => spAttempts' = spAttempts
C37_ErrorsBeforeStore == []C37_Inv /\ [][C37_Step]_vars

\* C37: outside the test environment, with no uploader, an item on its
\* first attempt was rejected with the error of the function
C37_Witness ==
    /\ appEnv = "production"
    /\ NoUploader
    /\ spPc = "handled"
    /\ spErr = NotInitializedError
    /\ spAttempts = 1
    /\ spNext = "rejected"

\* C38: after merge, each persisted field of the receiver holds the value
\* of the other options when that value is not the zero value, and its old
\* value otherwise; every field that is not persisted keeps its value; no
\* field that was non-zero is zero afterwards; a second merge of the same
\* options changes nothing. restore of a missing file returns nil with the
\* options as they were, and restore of a readable file is the merge of
\* what the file holds.
AllFields == DOMAIN mgO
MergedOnce ==
    [f \in AllFields |->
        IF f \in Persisted /\ mgOther[f] # Zero(f) THEN mgOther[f] ELSE mgO[f]]
C38_Inv ==
    /\ mgPc = "merged" => mgRes = MergedOnce
    /\ mgPc \in {"merged", "restored"} =>
          /\ \A f \in AllFields \ Persisted : mgRes[f] = mgO[f]
          /\ \A f \in AllFields : mgO[f] # Zero(f) => mgRes[f] # Zero(f)
          /\ \A f \in Persisted : mgRes[f] \in {mgO[f], mgOther[f]}
    /\ (mgPc = "restored" /\ mgFile = "missing") => mgErr = "nil" /\ mgRes = mgO
    /\ (mgPc = "restored" /\ mgFile = "ok") => mgErr = "nil" /\ mgRes = MergedOnce
    /\ (mgPc = "restored" /\ mgFile = "invalid") => mgErr # "nil" /\ mgRes = mgO
C38_Step ==
    mgPc = "merged" => mgRes' = mgRes
C38_OptionMerging == []C38_Inv /\ [][C38_Step]_vars

\* C38: merged twice: the bucket name came from the other options, the
\* region, empty there, and the encrypt switch, false there, kept the
\* receiver's values, dryRun was not copied
C38_Witness ==
    /\ mgPc = "merged"
    /\ mgN = 2
    /\ mgO.BucketName = "o" /\ mgOther.BucketName = "x" /\ mgRes.BucketName = "x"
    /\ mgO.Region = "o" /\ mgOther.Region = "" /\ mgRes.Region = "o"
    /\ mgO.Encrypt /\ ~mgOther.Encrypt /\ mgRes.Encrypt
    /\ mgOther.dryRun /\ ~mgO.dryRun /\ ~mgRes.dryRun
    /\ mgOther.WorkersCount = 2 /\ mgRes.WorkersCount = 2

\* C39 as stated: after any sequence of Upload and Reset calls, all
\* returned, UploadCount is the number of recorded uploads and that is the
\* number of Upload calls since the last Reset. Violated by an Upload
\* whose body cannot be read: it fails, is counted and is not recorded.
SinceReset == mkStarted - mkAtReset
C39_Bookkeeping ==
    MockQuiet => mkCount = Len(mkUploads) /\ Len(mkUploads) = SinceReset

\* C39, what does hold: the count is the number of calls since the last
\* Reset, the records are those of the calls among them that read their
\* body, an injected error is recorded with the call it was returned to,
\* and Reset empties both
C39_Inv ==
    /\ MockQuiet => mkCount = SinceReset /\ Len(mkUploads) = SinceReset - mkReadFails
    /\ \A w \in Workers :
          mkPc[w] = "return" =>
              /\ mkUploads # <<>>
              /\ mkUploads[Len(mkUploads)].by = w
              /\ mkUploads[Len(mkUploads)].error = mkErr[w]
C39_Step ==
    /\ mkResets' # mkResets => mkCount' = 0 /\ mkUploads' = <<>>
    /\ \A w \in Workers :
          (mkPc[w] = "return" /\ mkPc'[w] = "none") => mkRet'[w] = mkErr[w]
C39_BookkeepingReadable == []C39_Inv /\ [][C39_Step]_vars

\* C39: after a Reset, one Upload with an unreadable body has returned its
\* error: the count is 1 and nothing is recorded
C39_FailedReadNotRecorded ==
    /\ MockQuiet
    /\ mkResets = 1
    /\ mkAtReset >= 1
    /\ SinceReset = 1
    /\ \E w \in Workers : mkRet[w] = ReadError
    /\ mkCount = 1
    /\ mkUploads = <<>>

====
